---- MODULE Spec2Model ----
(***************************************************************************)
(* A model of mcp-claude-code: the session orchestrator                    *)
(* (executor/interactive_executor.py), the permission bridge               *)
(* (permission_server/callback_server.py and the elicitation callback of   *)
(* the executor), the permission cache (storage/permission_manager.py) and *)
(* the bridge helper (permission_server/approver.py).                      *)
(*                                                                         *)
(* Three specifications share the variables:                               *)
(*   Spec        the orchestrator: execute, the read loop, resumption      *)
(*   BridgeSpec  the bridge server's connections and the permission cache  *)
(*   HelperSpec  the helper's request with its retry loop                  *)
(***************************************************************************)
EXTENDS Integers, Sequences, FiniteSets, TLC

(***************************************************************************)
(* Bounds of the model.                                                    *)
(***************************************************************************)
\* events read from the agent's stdout in one execution, all rounds together
MaxEvents == 3
\* resumption rounds of one execution
MaxRounds == 2
\* execute's inactivity_timeout_seconds, in ticks of the model's clock
inactivity_timeout_seconds == 1

(***************************************************************************)
(* Values.                                                                 *)
(***************************************************************************)
\* self.session_id: None, or whatever an event's session_id field held
NoSession == "None"
\* the session_id field of a protocol line: absent, or a value ("" is falsy)
SessionFields == {"absent", "", "s1", "s2"}

\* Python truthiness of self.session_id
Truthy(sid) == sid \notin {NoSession, ""}

\* The events the parser yields, as far as the read loop tells them apart:
\* the type, a Result's subtype, the marker handle_event detects in an
\* assistant event's text (qempty: a question marker whose question is ""),
\* the raw session_id field, and the name of the tool an assistant event's
\* tool_use block invokes, as the words between its underscores, in lower
\* case (NoTool: the event has no tool_use block).
NoTool == <<>>
\* the tool the command names after --permission-prompt-tool
PermissionTool == <<"mcp", "perm", "approve">>
ToolNames == {PermissionTool, <<"mcp", "github", "approve", "review">>,
              <<"read">>}
Events ==
  [type : {"init"}, subtype : {"-"}, marker : {"none"},
   qempty : {FALSE}, session_id : SessionFields, tool : {NoTool}]
  \cup
  [type : {"assistant"}, subtype : {"-"},
   marker : {"none", "choice", "question", "confirmation"},
   qempty : {FALSE}, session_id : SessionFields, tool : {NoTool}]
  \cup
  [type : {"assistant"}, subtype : {"-"}, marker : {"none"},
   qempty : {FALSE}, session_id : {"absent"}, tool : ToolNames]
  \cup
  [type : {"assistant"}, subtype : {"-"}, marker : {"question"},
   qempty : {TRUE}, session_id : SessionFields, tool : {NoTool}]
  \cup
  [type : {"result"}, subtype : {"success", "error_during_execution"},
   marker : {"none"}, qempty : {FALSE}, session_id : SessionFields,
   tool : {NoTool}]

NoEvent == [type |-> "none", subtype |-> "-", marker |-> "none",
            qempty |-> FALSE, session_id |-> "absent", tool |-> NoTool]

\* What the Host answers to an elicit: accept with a non-empty value, accept
\* with the empty string, or anything that is not an accept.
ElicitAnswers == {"accept", "accept_empty", "decline"}

\* A response formed from a Host decision; id numbers the responses of one
\* execution, empty says that the text is the empty string.
NoResponse == [id |-> 0, empty |-> TRUE]

\* Python truthiness of pending_resume_response (None or a string)
TruthyResponse(r) == r.id # 0 /\ ~r.empty

AllCounterKeys == {"permissions_requested", "permissions_granted",
                   "choices_asked", "questions_asked", "confirmations_asked"}

NoError == <<"None", "">>

NoResult == [kind |-> "none", success |-> FALSE, error |-> NoError,
             returncode |-> 0, keys |-> {},
             permissions_requested |-> 0, permissions_granted |-> 0,
             choices_asked |-> 0, questions_asked |-> 0,
             confirmations_asked |-> 0]

NoCmd == [resume |-> NoSession, bypass |-> FALSE, bridge |-> FALSE,
          system_prompt |-> FALSE]

VARIABLES
  \* ---- the orchestrator (InteractiveExecutor) ----
  pc,                       \* where execute is
  ctx,                      \* whether a Host context is present
  enable_permissions,       \* self.enable_permissions
  callback_server,          \* the bridge server is listening
  approver_config_path,     \* the helper configuration file exists
  process,                  \* self.process: "none", "running", "killed", "exited"
  returncode,               \* what `await self.process.wait()` returned
  stderr_text,              \* what `self.process.stderr.read()` returned
  cmd,                      \* the command line self.process was spawned with
  stdin,                    \* the messages written to self.process's stdin
  spawned,                  \* number of processes spawned
  session_id,               \* self.session_id
  pending_resume_response,  \* the first round's local of that name
  user_response,            \* the argument of the coming _resume_session call
  event,                    \* the event being handled (none between two)
  round,                    \* number of _resume_session frames entered
  events_read,              \* events read so far
  elapsed,                  \* time.time() - last_activity, in ticks; it stops
                            \* counting one tick past the inactivity window
  cont,                     \* what follows the running _terminate_process
  choices_asked, questions_asked, confirmations_asked,
  permissions_requested, permissions_granted,
  outcome,                  \* "none", "returned", "raised"
  result,                   \* the dictionary execute returned
  loop_frames,              \* read loops entered and not yet left
  heartbeats,               \* heartbeat tasks created and not yet cancelled
  heartbeat_reports,        \* history: progress reports made by heartbeat tasks
  progress_reports,         \* history: progress reports made by the loop's
                            \* body for the event last read
  \* ---- history (read by the properties only) ----
  formed,                   \* responses formed so far
  delivered,                \* ids of the responses written to a stdin, in order
  deadline_fired,           \* wait_for's timeout has cancelled the loop
  silent_gap,               \* no event arrived for longer than the window
  \* ---- the permission cache (PermissionManager) ----
  session_permissions,      \* self.session_permissions: hash -> StoredPermission
  persistent_permissions,   \* self.persistent_permissions
  storage_file,             \* the file at self.storage_path
  cache_pc,                 \* "new", "ready", or "raised" (by __init__)
  cache_op,                 \* history: the latest call made on the cache
  stored_always,            \* history: keys whose ALLOW_ALWAYS store returned
  write_failed,             \* history: the latest _save_persistent raised
  \* ---- the bridge server's connections ----
  conn,                     \* per connection: where _handle_connection is
  requests,                 \* connections accepted so far
  elicit_calls,             \* ctx.elicit calls made by the permission callback
  \* ---- the helper's request_permission_via_socket ----
  h_pc,                     \* where the call is
  retry_attempts,           \* its parameters
  retry_delay,
  attempt,                  \* the loop variable
  last_error,               \* the local of that name
  response,                 \* what the call returned
  connections_made,         \* open_unix_connection calls so far
  last_exchange,            \* how the latest exchange went
  approver_call,            \* call_tool's name and arguments
  approver_input,           \* call_tool's local tool_input
  approver_result,          \* the result call_tool returned to the agent
  sleeps,                   \* the delays slept, in order
  exchange_log,             \* history: how each attempt went, in order
  \* ---- the stream parser (StreamParser.parse_events) ----
  stdout_stream,            \* what readline has still to return, in order
  p_pc,                     \* "reading", "ended", or "raised"
  yielded,                  \* the events yielded to the consumer, in order
  lines_read,               \* history: the lines passed to from_json_line
  \* ---- the interaction handler (InteractionHandler.handle_event) ----
  d_event,                  \* the event handle_event is called with
  d_pc,                     \* "idle", "eliciting", "returned", or "raised"
  d_interaction,            \* the marker detected
  d_elicits,                \* ctx.elicit calls made
  d_response                \* the type of the response returned, or "None"

cfgVars    == <<ctx, enable_permissions>>
srvVars    == <<callback_server, approver_config_path>>
procVars   == <<process, returncode, stderr_text, cmd, stdin, spawned>>
metricVars == <<choices_asked, questions_asked, confirmations_asked,
                permissions_requested, permissions_granted>>
histVars   == <<formed, delivered, deadline_fired, silent_gap>>
\* the locals of the read loop, gone when execute has ended
localVars  == <<pending_resume_response, user_response, event, events_read,
                elapsed>>
ctlVars    == <<pc, cont, outcome, result>>
\* the read loops and their heartbeat tasks
reportVars == <<heartbeat_reports, progress_reports>>
tickVars   == <<loop_frames, heartbeats, reportVars>>
execVars   == <<ctlVars, cfgVars, srvVars, procVars, session_id, round,
                localVars, metricVars, histVars, tickVars>>

cacheVars  == <<session_permissions, persistent_permissions, storage_file>>
\* the cache as its direct callers see it
callVars   == <<cache_pc, cache_op, stored_always, write_failed>>
bridgeVars == <<cacheVars, callVars, conn, requests, elicit_calls>>
toolVars   == <<approver_call, approver_input, approver_result>>
helperVars == <<h_pc, retry_attempts, retry_delay, attempt, last_error,
                response, connections_made, last_exchange, sleeps,
                exchange_log, toolVars>>

\* the stream parser on its own
parserVars == <<stdout_stream, p_pc, yielded, lines_read>>
\* the interaction handler on its own
detectorVars == <<d_event, d_pc, d_interaction, d_elicits, d_response>>
unitVars   == <<parserVars, detectorVars>>

vars == <<execVars, bridgeVars, helperVars, unitVars>>


(***************************************************************************)
(* The orchestrator's pure parts.                                          *)
(***************************************************************************)
\* _build_command: the resume flag carries the session id, the bypass flag is
\* set when permissions are disabled, else the bridge wiring when the helper
\* configuration exists
BuildCommand_noResume(resume_session_id, system_prompt) ==
  [resume |-> NoSession,
   bypass |-> ~enable_permissions,
   bridge |-> enable_permissions /\ approver_config_path,
   system_prompt |-> system_prompt]
BuildCommand(resume_session_id, system_prompt) ==
  [resume |-> IF Truthy(resume_session_id) THEN resume_session_id ELSE NoSession,
   bypass |-> ~enable_permissions,
   bridge |-> enable_permissions /\ approver_config_path,
   system_prompt |-> system_prompt]

\* the message _send_stdin_message writes
PromptMessage == [kind |-> "prompt", id |-> 0]
ResponseMessage(r) == [kind |-> "response", id |-> r.id]

\* handle_event: only an assistant event is searched for a marker
Detect(e) == IF e.type = "assistant" THEN e.marker ELSE "none"

\* _handle_choice, _handle_question, _handle_confirmation: the response
\* dictionary. A choice's text is "I choose: ..." and a confirmation's
\* "CONFIRMED: ...", never empty; a question's text is the accepted value, or
\* the default or "Skipped" when the Host did not accept.
HandleInteraction(e, ans) ==
  [type |-> Detect(e),
   text_empty |-> (Detect(e) = "question" /\ ans = "accept_empty"),
   question_text_empty |-> e.qempty]

\* _format_response_with_context: a question's answer is prefixed with the
\* question when the question is not empty; everything else is the text
FormatResponseEmpty(resp) ==
  IF resp.type = "question" /\ ~resp.question_text_empty
  THEN FALSE
  ELSE resp.text_empty

\* `if self.session_id:` after an interaction has been answered
ShouldQueue_direct(sid) == FALSE
ShouldQueue(sid) == Truthy(sid)

\* `if pending_resume_response and self.session_id:`
NeedsResume(pending, sid) == TruthyResponse(pending) /\ Truthy(sid)

\* `if time.time() - last_activity > inactivity_timeout:`
InactivityExceeded(t) == t > inactivity_timeout_seconds

\* parse_result_event: the success flag
ParseResultSuccess_always(e) == TRUE
ParseResultSuccess(e) == e.subtype = "success"

\* `"success": returncode == 0` of the result built when the stream ended
StreamEndSuccess_never(rc) == FALSE
StreamEndSuccess(rc) == rc = 0

WithCounters(r) ==
  [r EXCEPT !.keys = r.keys \cup AllCounterKeys,
            !.permissions_requested = permissions_requested,
            !.permissions_granted = permissions_granted,
            !.choices_asked = choices_asked,
            !.questions_asked = questions_asked,
            !.confirmations_asked = confirmations_asked]

\* the dictionary returned on a Result event
ResultEventResult(e) ==
  WithCounters([NoResult EXCEPT
    !.kind = "result", !.success = ParseResultSuccess(e),
    !.keys = {"success", "output", "error_message"}])

\* the dictionary returned when the stream ended without a Result event
StreamEndResult(rc, err) ==
  WithCounters([NoResult EXCEPT
    !.kind = "stream_end", !.success = StreamEndSuccess(rc),
    !.error = IF err = "" THEN NoError ELSE <<"stderr", err>>,
    !.returncode = rc,
    !.keys = {"success", "output", "error", "returncode"}])

\* the dictionary returned by the inactivity check
InactivityResult ==
  [NoResult EXCEPT
    !.kind = "inactivity", !.success = FALSE,
    !.error = <<"Inactivity timeout after", "inactivity_timeout_seconds">>,
    !.returncode = -1,
    !.keys = {"success", "error", "output", "returncode",
              "permissions_requested", "permissions_granted"},
    !.permissions_requested = permissions_requested,
    !.permissions_granted = permissions_granted]

\* the dictionary execute returns when wait_for timed out
DeadlineResult ==
  WithCounters([NoResult EXCEPT
    !.kind = "deadline", !.success = FALSE,
    !.error = <<"Execution exceeded", "max_execution_seconds">>,
    !.returncode = -1,
    !.keys = {"success", "error", "returncode"}])

ExceptionOutcome(exc) ==
  [NoResult EXCEPT !.kind = "exception", !.error = <<exc, "">>]



(***************************************************************************)
(* The state after construction (InteractiveExecutor.__init__).            *)
(***************************************************************************)
ExecInit ==
  /\ pc = "idle"
  /\ ctx \in BOOLEAN
  /\ enable_permissions = TRUE
  /\ callback_server = FALSE
  /\ approver_config_path = FALSE
  /\ process = "none" /\ returncode = 0 /\ stderr_text = ""
  /\ cmd = NoCmd /\ stdin = <<>> /\ spawned = 0
  /\ session_id = NoSession
  /\ pending_resume_response = NoResponse
  /\ user_response = NoResponse
  /\ event = NoEvent
  /\ round = 0 /\ events_read = 0 /\ elapsed = 0
  /\ cont = "none"
  /\ choices_asked = 0 /\ questions_asked = 0 /\ confirmations_asked = 0
  /\ permissions_requested = 0 /\ permissions_granted = 0
  /\ outcome = "none" /\ result = NoResult
  /\ formed = 0 /\ delivered = <<>>
  /\ deadline_fired = FALSE /\ silent_gap = FALSE
  /\ loop_frames = 0 /\ heartbeats = 0 /\ heartbeat_reports = 0
  /\ progress_reports = 0

(***************************************************************************)
(* How execute goes on or ends.  `return` and a propagating exception both *)
(* run the finally clause of execute, _cleanup_permission_server; the      *)
(* locals of the loop are gone then.                                       *)
(***************************************************************************)
\* `heartbeat.cancel()` and `await heartbeat` in the finally clause of each
\* of `frames` read loops: that many of the n tasks are gone
CancelTickers_none(n, frames) == n
CancelTickers(n, frames) == n - frames

\* lines 219-223 and 574-577: the heartbeat task is created, the loop entered
StartLoop ==
  /\ loop_frames' = loop_frames + 1
  /\ heartbeats' = heartbeats + 1
  /\ UNCHANGED reportVars

\* lines 332-339 and 651-658: the loop of the running frame is left
LeaveLoop ==
  /\ loop_frames' = loop_frames - 1
  /\ heartbeats' = CancelTickers(heartbeats, 1)
  /\ UNCHANGED reportVars

\* a return, an exception or the cancellation passes through every frame
Unwind ==
  /\ loop_frames' = 0
  /\ heartbeats' = CancelTickers(heartbeats, loop_frames)
  /\ UNCHANGED reportVars

DropLocals ==
  /\ pending_resume_response' = NoResponse
  /\ user_response' = NoResponse
  /\ event' = NoEvent
  /\ events_read' = 0
  /\ elapsed' = 0

Return(r) ==
  /\ pc' = "done" /\ cont' = "none" /\ outcome' = "returned" /\ result' = r
  /\ callback_server' = FALSE /\ approver_config_path' = FALSE
  /\ DropLocals
  /\ Unwind

Raise(exc) ==
  /\ pc' = "done" /\ cont' = "none" /\ outcome' = "raised"
  /\ result' = ExceptionOutcome(exc)
  /\ callback_server' = FALSE /\ approver_config_path' = FALSE
  /\ DropLocals
  /\ Unwind

\* execute goes on at p
Jump(p) ==
  /\ pc' = p /\ cont' = "none"
  /\ UNCHANGED <<outcome, result, srvVars>>

\* execute goes on at p, in the same frame
Goto(p) == Jump(p) /\ UNCHANGED tickVars

\* the points where the task is suspended inside asyncio.wait_for
Suspended ==
  \/ pc \in {"read", "elicit", "respawn", "send_response", "wait_exit"}
  \/ pc = "progress" /\ ctx
  \/ pc = "terminating" /\ cont # "deadline"

(***************************************************************************)
(* execute, up to the read loop.                                           *)
(***************************************************************************)
\* `use_native_permissions = enable_permissions and self.ctx is not None`
UseNativePermissions_withHost(ep, c) == c
UseNativePermissions(ep, c) == ep /\ c

\* execute: store the parameters; set up the bridge in native mode
Execute(ep) ==
  /\ pc = "idle"
  /\ enable_permissions' = ep
  /\ callback_server' = UseNativePermissions(ep, ctx)
  /\ approver_config_path' = UseNativePermissions(ep, ctx)
  /\ pc' = "spawn"
  /\ UNCHANGED <<cont, outcome, result, ctx, procVars, session_id, round,
                 localVars, metricVars, histVars, tickVars>>
  /\ UNCHANGED <<bridgeVars, helperVars, unitVars>>

\* create_subprocess_exec succeeds
Spawn ==
  /\ pc = "spawn"
  /\ process' = "running" /\ returncode' = 0 /\ stderr_text' = ""
  /\ cmd' = BuildCommand(NoSession, TRUE)
  /\ stdin' = <<>> /\ spawned' = spawned + 1
  /\ Goto("send_prompt")
  /\ UNCHANGED <<cfgVars, session_id, round, localVars, metricVars, histVars>>
  /\ UNCHANGED <<bridgeVars, helperVars, unitVars>>

\* create_subprocess_exec raises (the binary is missing, ...)
SpawnFails ==
  /\ pc = "spawn"
  /\ Raise("spawn")
  /\ UNCHANGED <<cfgVars, procVars, session_id, round, metricVars, histVars>>
  /\ UNCHANGED <<bridgeVars, helperVars, unitVars>>

\* _send_stdin_message(prompt), then wait_for(_event_loop) starts
SendPrompt ==
  /\ pc = "send_prompt"
  /\ stdin' = Append(stdin, PromptMessage)
  /\ Jump("read") /\ StartLoop
  /\ UNCHANGED <<cfgVars, process, returncode, stderr_text, cmd, spawned,
                 session_id, round, localVars, metricVars, histVars>>
  /\ UNCHANGED <<bridgeVars, helperVars, unitVars>>

\* the write or the drain raises (the pipe is closed)
SendPromptFails ==
  /\ pc = "send_prompt"
  /\ Raise("stdin")
  /\ UNCHANGED <<cfgVars, procVars, session_id, round, metricVars, histVars>>
  /\ UNCHANGED <<bridgeVars, helperVars, unitVars>>

(***************************************************************************)
(* The environment: the agent process exits, time passes.                  *)
(***************************************************************************)
ExitCodes == {0, 1}
StderrTexts == {"", "error text"}

ProcExit ==
  /\ pc \notin {"done", "terminating"}
  /\ process = "running"
  /\ process' = "exited"
  /\ UNCHANGED <<ctlVars, cfgVars, srvVars, returncode, stderr_text, cmd,
                 stdin, spawned,
                 session_id, round, localVars, metricVars, histVars, tickVars>>
  /\ UNCHANGED <<bridgeVars, helperVars, unitVars>>

\* a tick of the clock while the loop waits for an event or for the Host;
\* last_activity is not read again once the loop has been left
Tick ==
  /\ Suspended
  /\ pc \in {"read", "progress", "elicit"}
  /\ elapsed <= inactivity_timeout_seconds
  /\ elapsed' = elapsed + 1
  /\ silent_gap' = (silent_gap \/ (/\ pc = "read" /\ process = "running"
                                 /\ InactivityExceeded(elapsed + 1)))
  /\ UNCHANGED <<ctlVars, cfgVars, srvVars, procVars, session_id, round,
                 pending_resume_response, user_response, event, events_read,
                 metricVars, formed, delivered, deadline_fired, tickVars>>
  /\ UNCHANGED <<bridgeVars, helperVars, unitVars>>

\* heartbeat reports counted in one execution
MaxHeartbeats == 1

\* a heartbeat task wakes from its sleep and reports (lines 200-216 and
\* 555-571); a report that raises is logged and the task goes on
HeartbeatTick ==
  /\ heartbeats > 0
  /\ ctx
  /\ heartbeat_reports < MaxHeartbeats
  /\ heartbeat_reports' = heartbeat_reports + 1
  /\ UNCHANGED <<loop_frames, heartbeats, progress_reports>>
  /\ UNCHANGED <<ctlVars, cfgVars, srvVars, procVars, session_id, round,
                 localVars, metricVars, histVars>>
  /\ UNCHANGED <<bridgeVars, helperVars, unitVars>>

(***************************************************************************)
(* _terminate_process: terminate(), wait up to the grace period, kill().   *)
(* k says what the caller does when it returns.                            *)
(***************************************************************************)
Continue(k) ==
  CASE k = "resume"     -> Goto("respawn") /\ UNCHANGED localVars
    [] k = "inactivity" -> Return(InactivityResult)
    [] k = "deadline"   -> Return(DeadlineResult)

\* terminate() is sent to a running process; the wait begins
TerminateThen(k) ==
  /\ pc' = "terminating" /\ cont' = k
  /\ UNCHANGED <<outcome, result, srvVars>>

\* the process exits within the grace period
TerminateExits ==
  /\ pc = "terminating"
  /\ process' = "exited"
  /\ Continue(cont)
  /\ UNCHANGED <<cfgVars, returncode, stderr_text, cmd, stdin, spawned, session_id, round,
                 metricVars, histVars>>
  /\ UNCHANGED <<bridgeVars, helperVars, unitVars>>

\* the grace period ends first: kill()
TerminateKills ==
  /\ pc = "terminating"
  /\ process' = "killed"
  /\ Continue(cont)
  /\ UNCHANGED <<cfgVars, returncode, stderr_text, cmd, stdin, spawned,
                 session_id, round, metricVars, histVars>>
  /\ UNCHANGED <<bridgeVars, helperVars, unitVars>>


(***************************************************************************)
(* The read loop of _event_loop (round = 0) and of _resume_session.        *)
(***************************************************************************)
\* `if self.process and self.process.returncode is None:` (line 346)
ReturncodeIsNone_never(p) == FALSE
ReturncodeIsNone(p) == p = "running"

\* lines 341-355: after the first round's loop, resume with the queued response
BeginResume ==
  /\ user_response' = pending_resume_response
  /\ LeaveLoop
  /\ IF ReturncodeIsNone(process) THEN TerminateThen("resume")
     ELSE Jump("respawn")

\* the parser yields an event: last_activity, the session id
ReadEvent(e) ==
  /\ pc = "read"
  /\ events_read < MaxEvents
  /\ events_read' = events_read + 1
  /\ event' = e
  /\ elapsed' = 0
  /\ session_id' = IF e.session_id = "absent" THEN session_id ELSE e.session_id
  /\ Jump("progress")
  /\ progress_reports' = 0
  /\ UNCHANGED <<loop_frames, heartbeats, heartbeat_reports>>
  /\ UNCHANGED <<cfgVars, procVars, round, pending_resume_response,
                 user_response, metricVars, histVars>>
  /\ UNCHANGED <<bridgeVars, helperVars, unitVars>>

\* the stream ends (end of file or a read error): the loop is left
ReadEOF ==
  /\ pc = "read"
  /\ IF round = 0 /\ NeedsResume(pending_resume_response, session_id)
     THEN BeginResume
     ELSE Jump("wait_exit") /\ LeaveLoop /\ UNCHANGED user_response
  /\ UNCHANGED <<cfgVars, procVars, session_id, round,
                 pending_resume_response, event, events_read, elapsed,
                 metricVars, histVars>>
  /\ UNCHANGED <<bridgeVars, helperVars, unitVars>>

\* _is_permission_event: an assistant event with a tool_use whose name,
\* in lower case, contains "approve" or "perm"
IsPermissionEvent(e) ==
  /\ e.type = "assistant"
  /\ e.tool # NoTool
  /\ \E i \in DOMAIN e.tool : e.tool[i] \in {"approve", "perm"}

\* _report_progress: the reports it makes for an event
ProgressReportsFor(c, e) == IF c /\ ~IsPermissionEvent(e) THEN 1 ELSE 0

\* _report_progress returns; handle_event looks for a marker and, with one,
\* asks the Host
ReportProgress ==
  /\ pc = "progress"
  /\ IF Detect(event) # "none" /\ ~ctx THEN Raise("elicit")
     ELSE /\ Jump(IF Detect(event) = "none" THEN "check" ELSE "elicit")
          /\ progress_reports' = ProgressReportsFor(ctx, event)
          /\ UNCHANGED <<loop_frames, heartbeats, heartbeat_reports,
                         localVars>>
  /\ UNCHANGED <<cfgVars, procVars, session_id, round, metricVars, histVars>>
  /\ UNCHANGED <<bridgeVars, helperVars, unitVars>>

\* ctx.report_progress raises
ReportProgressFails ==
  /\ pc = "progress"
  /\ ProgressReportsFor(ctx, event) > 0
  /\ Raise("report_progress")
  /\ UNCHANGED <<cfgVars, procVars, session_id, round, metricVars, histVars>>
  /\ UNCHANGED <<bridgeVars, helperVars, unitVars>>

\* _update_metrics
UpdateMetrics(t) ==
  /\ choices_asked' = choices_asked + (IF t = "choice" THEN 1 ELSE 0)
  /\ questions_asked' = questions_asked + (IF t = "question" THEN 1 ELSE 0)
  /\ confirmations_asked' =
       confirmations_asked + (IF t = "confirmation" THEN 1 ELSE 0)
  /\ UNCHANGED <<permissions_requested, permissions_granted>>

\* the response the Host's answer makes, formatted for a resumption
FormedResponse(ans) ==
  LET resp == HandleInteraction(event, ans)
  IN  [id |-> formed + 1, empty |-> FormatResponseEmpty(resp)]

\* ctx.elicit returns: the response is counted, then queued, written to
\* stdin, sent by a resumption, or (resumed round, no session id) dropped
HostAnswers(ans) ==
  /\ pc = "elicit"
  /\ ans = "accept_empty" => Detect(event) = "question"
  /\ formed' = formed + 1
  /\ UpdateMetrics(Detect(event))
  /\ IF round = 0
     THEN IF ShouldQueue(session_id)
          THEN /\ pending_resume_response' = FormedResponse(ans)
               /\ Goto("check")
               /\ UNCHANGED <<stdin, delivered, user_response, event>>
          ELSE /\ stdin' = Append(stdin, ResponseMessage(FormedResponse(ans)))
               /\ delivered' = Append(delivered, formed + 1)
               /\ Goto("check")
               /\ UNCHANGED <<pending_resume_response, user_response, event>>
     ELSE IF ShouldQueue(session_id)
          THEN /\ user_response' = FormedResponse(ans)
               /\ IF process = "running"
                  THEN TerminateThen("resume") /\ UNCHANGED tickVars
                  ELSE Goto("respawn")
               /\ event' = NoEvent
               /\ UNCHANGED <<stdin, delivered, pending_resume_response>>
          ELSE /\ Goto("check")
               /\ UNCHANGED <<stdin, delivered, pending_resume_response,
                              user_response, event>>
  /\ UNCHANGED <<cfgVars, process, returncode, stderr_text, cmd, spawned,
                 session_id, round, events_read, elapsed,
                 deadline_fired, silent_gap>>
  /\ UNCHANGED <<bridgeVars, helperVars, unitVars>>

\* the direct stdin write raises
HostAnswersStdinFails(ans) ==
  /\ pc = "elicit"
  /\ ans = "accept_empty" => Detect(event) = "question"
  /\ round = 0 /\ ~ShouldQueue(session_id)
  /\ formed' = formed + 1
  /\ UpdateMetrics(Detect(event))
  /\ Raise("stdin")
  /\ UNCHANGED <<cfgVars, procVars, session_id, round, delivered,
                 deadline_fired, silent_gap>>
  /\ UNCHANGED <<bridgeVars, helperVars, unitVars>>

\* resumed round: terminate() on a process that has exited raises
\* ProcessLookupError
HostAnswersTerminateRaises(ans) ==
  /\ pc = "elicit"
  /\ ans = "accept_empty" => Detect(event) = "question"
  /\ round > 0 /\ ShouldQueue(session_id)
  /\ process # "running"
  /\ formed' = formed + 1
  /\ UpdateMetrics(Detect(event))
  /\ Raise("terminate")
  /\ UNCHANGED <<cfgVars, procVars, session_id, round, delivered,
                 deadline_fired, silent_gap>>
  /\ UNCHANGED <<bridgeVars, helperVars, unitVars>>

\* ctx.elicit raises
HostFails ==
  /\ pc = "elicit"
  /\ Raise("elicit")
  /\ UNCHANGED <<cfgVars, procVars, session_id, round, metricVars, histVars>>
  /\ UNCHANGED <<bridgeVars, helperVars, unitVars>>

\* the end of the loop body: the Result check, then (first round only) the
\* inactivity check
CheckEvent ==
  /\ pc = "check"
  /\ IF event.type = "result"
     THEN IF round = 0 /\ NeedsResume(pending_resume_response, session_id)
          THEN /\ BeginResume
               /\ event' = NoEvent
               /\ UNCHANGED <<pending_resume_response, events_read, elapsed>>
          ELSE Return(ResultEventResult(event))
     ELSE IF round = 0 /\ InactivityExceeded(elapsed)
          THEN IF process = "running"
               THEN /\ TerminateThen("inactivity")
                    /\ UNCHANGED <<localVars, tickVars>>
               ELSE Return(InactivityResult)
          ELSE /\ Goto("read")
               /\ event' = NoEvent
               /\ UNCHANGED <<pending_resume_response, user_response,
                              events_read, elapsed>>
  /\ UNCHANGED <<cfgVars, procVars, session_id, round, metricVars, histVars>>
  /\ UNCHANGED <<bridgeVars, helperVars, unitVars>>

\* the inactivity check's terminate() raises: the process has exited
CheckTerminateRaises ==
  /\ pc = "check"
  /\ event.type # "result"
  /\ round = 0 /\ InactivityExceeded(elapsed)
  /\ process # "running"
  /\ Raise("terminate")
  /\ UNCHANGED <<cfgVars, procVars, session_id, round, metricVars, histVars>>
  /\ UNCHANGED <<bridgeVars, helperVars, unitVars>>

\* lines 360-374 and 660-674: wait for the exit, read stderr, return
WaitExit(rc, err) ==
  /\ pc = "wait_exit"
  /\ process = "exited"
  /\ returncode' = rc
  /\ stderr_text' = err
  /\ Return(StreamEndResult(rc, err))
  /\ UNCHANGED <<cfgVars, process, cmd, stdin, spawned,
                 session_id, round, metricVars, histVars>>
  /\ UNCHANGED <<bridgeVars, helperVars, unitVars>>

(***************************************************************************)
(* _resume_session, up to its read loop.                                   *)
(***************************************************************************)
Respawn ==
  /\ pc = "respawn"
  /\ round < MaxRounds
  /\ round' = round + 1
  /\ process' = "running" /\ returncode' = 0 /\ stderr_text' = ""
  /\ cmd' = BuildCommand(session_id, FALSE)
  /\ stdin' = <<>> /\ spawned' = spawned + 1
  /\ Goto("send_response")
  /\ UNCHANGED <<cfgVars, session_id, localVars, metricVars, histVars>>
  /\ UNCHANGED <<bridgeVars, helperVars, unitVars>>

RespawnFails ==
  /\ pc = "respawn"
  /\ round < MaxRounds
  /\ Raise("spawn")
  /\ UNCHANGED <<cfgVars, procVars, session_id, round, metricVars, histVars>>
  /\ UNCHANGED <<bridgeVars, helperVars, unitVars>>

\* _send_stdin_message(user_response), then the resumed read loop starts
SendResponse ==
  /\ pc = "send_response"
  /\ stdin' = Append(stdin, ResponseMessage(user_response))
  /\ delivered' = Append(delivered, user_response.id)
  /\ elapsed' = 0
  /\ Jump("read") /\ StartLoop
  /\ UNCHANGED <<cfgVars, process, returncode, stderr_text, cmd, spawned,
                 session_id, round, pending_resume_response, user_response,
                 event, events_read, metricVars, formed, deadline_fired,
                 silent_gap>>
  /\ UNCHANGED <<bridgeVars, helperVars, unitVars>>

SendResponseFails ==
  /\ pc = "send_response"
  /\ Raise("stdin")
  /\ UNCHANGED <<cfgVars, procVars, session_id, round, metricVars, histVars>>
  /\ UNCHANGED <<bridgeVars, helperVars, unitVars>>

(***************************************************************************)
(* The hard deadline: wait_for cancels the loop wherever it is suspended,  *)
(* and execute terminates self.process and returns.  When the timer fires  *)
(* is up to the caller's max_execution_seconds.                            *)
(***************************************************************************)
Deadline ==
  /\ Suspended
  /\ deadline_fired' = TRUE
  /\ IF process = "running"
     THEN TerminateThen("deadline") /\ Unwind /\ UNCHANGED localVars
     ELSE Return(DeadlineResult)
  /\ UNCHANGED <<cfgVars, procVars, session_id, round, metricVars, formed,
                 delivered, silent_gap>>
  /\ UNCHANGED <<bridgeVars, helperVars, unitVars>>

\* terminate() on a process that has exited raises ProcessLookupError
DeadlineTerminateRaises ==
  /\ Suspended
  /\ process # "running"
  /\ deadline_fired' = TRUE
  /\ Raise("terminate")
  /\ UNCHANGED <<cfgVars, procVars, session_id, round, metricVars, formed,
                 delivered, silent_gap>>
  /\ UNCHANGED <<bridgeVars, helperVars, unitVars>>

(***************************************************************************)
(* The permission cache: storage/permission_manager.py.                    *)
(***************************************************************************)
\* connections the bridge server handles at the same time
MaxConns == 2
\* connections it accepts in one run of the model
MaxRequests == 3

Conns == 1..MaxConns

\* A file path is the sequence of its components, absolute when it starts
\* with "/"; a command is the sequence of its characters.
Cwd == <<"/", "ws">>
ToolInputs ==
  [Read |-> {<<"a.txt">>, <<"/", "ws", "a.txt">>, <<".", "d", "..", "a.txt">>},
   Bash |-> {<<"l", "s">>, <<" ", "l", "s", " ">>}]
Tools == DOMAIN ToolInputs

\* Path(path).resolve(): a relative path is taken from the working
\* directory, "." components are dropped and ".." components take the
\* component before them away (no component of the model is a symbolic link)
RECURSIVE Collapse(_, _)
Collapse(done, rest) ==
  IF rest = <<>> THEN done
  ELSE IF Head(rest) = "." THEN Collapse(done, Tail(rest))
  ELSE IF Head(rest) = ".."
  THEN Collapse(IF Len(done) > 1 THEN SubSeq(done, 1, Len(done) - 1)
                ELSE done, Tail(rest))
  ELSE Collapse(Append(done, Head(rest)), Tail(rest))
Resolve_asGiven(path) == path
Resolve(path) ==
  LET absolute == IF path[1] = "/" THEN path ELSE Cwd \o path
  IN  Collapse(<<"/">>, Tail(absolute))

\* str.strip()
RECURSIVE LStrip(_)
LStrip(c) == IF c # <<>> /\ c[1] = " " THEN LStrip(Tail(c)) ELSE c
RECURSIVE RStrip(_)
RStrip(c) ==
  IF c # <<>> /\ c[Len(c)] = " " THEN RStrip(SubSeq(c, 1, Len(c) - 1)) ELSE c
Strip(c) == RStrip(LStrip(c))

\* _format_permission_target, for the file-path tools and Bash
FormatPermissionTarget(tool_name, tool_input) ==
  IF tool_name \in {"Read", "Write", "Edit"}
  THEN Resolve(tool_input)
  ELSE LET c == Strip(tool_input)
       IN  IF Len(c) > 100 THEN SubSeq(c, 1, 100) ELSE c

\* _generate_hash: the digest of "action:target", taken as free of collisions
GenerateHash(action, target) == <<action, target>>

Hashes ==
  {GenerateHash(t, FormatPermissionTarget(t, i)) : <<t, i>> \in
     UNION {{<<t, i>> : i \in ToolInputs[t]} : t \in Tools}}

\* PermissionDecision, by value
Decisions == {"allow_once", "allow_session", "allow_always", "deny"}

StoredPermission(action, target, decision) ==
  [action |-> action, target |-> target, decision |-> decision,
   hash |-> GenerateHash(action, target)]

NoPermission == [action |-> "None", target |-> <<>>, decision |-> "None",
                 hash |-> <<>>]
EmptyTier == [h \in {} |-> NoPermission]

\* the tiers a run of the program can have written to the file
TierOfAlways(H) ==
  [h \in H |-> StoredPermission(h[1], h[2], "allow_always")]
PersistedTiers == {TierOfAlways(H) : H \in SUBSET Hashes}

\* check_permission: the session tier first, then the persisted tier
CheckPermission_sessionOnly(action, target) ==
  LET h == GenerateHash(action, target)
  IN  IF h \in DOMAIN session_permissions THEN session_permissions[h]
      ELSE NoPermission
CheckPermission_persistedOnly(action, target) ==
  LET h == GenerateHash(action, target)
  IN  IF h \in DOMAIN persistent_permissions THEN persistent_permissions[h]
      ELSE NoPermission
CheckPermission(action, target) ==
  LET h == GenerateHash(action, target)
  IN  IF h \in DOMAIN session_permissions THEN session_permissions[h]
      ELSE IF h \in DOMAIN persistent_permissions
           THEN persistent_permissions[h]
           ELSE NoPermission

\* a dictionary with d[h] = perm
Put_alone(d, h, perm) == [k \in {h} |-> perm]
Put(d, h, perm) == [k \in DOMAIN d \cup {h} |-> IF k = h THEN perm ELSE d[k]]

\* The file at storage_path: missing, unreadable (open raises OSError), or
\* a text.  top says what json.load makes of the text: it raises
\* JSONDecodeError ("invalid_json"), returns a value that is no object
\* ("not_object"), or returns an object; plist says what the object's
\* "permissions" is: absent, a value that cannot be iterated ("not_list"),
\* or a list, whose elements are entries.
FileOf(state, top, plist, entries) ==
  [state |-> state, top |-> top, plist |-> plist, entries |-> entries]
MissingFile == FileOf("missing", "None", "None", <<>>)
UnreadableFile == FileOf("unreadable", "None", "None", <<>>)

\* An element of the list: an object with the four fields ("ok"), an object
\* lacking one ("no_field"), or a value that is no object ("not_object");
\* its decision is a PermissionDecision value or not.
FileEntry(shape, h, decision) ==
  [shape |-> shape, action |-> h[1], target |-> h[2], decision |-> decision,
   hash |-> h]

\* the elements of a set, one after the other
RECURSIVE SeqOf(_)
SeqOf(S) ==
  IF S = {} THEN <<>>
  ELSE LET x == CHOOSE y \in S : TRUE IN <<x>> \o SeqOf(S \ {x})

\* _save_persistent: the file lists one entry per StoredPermission of the
\* tier (in the dictionary's order, which no reader depends on as the
\* hashes differ); a failed write leaves the file as it was or cut short
RECURSIVE Listing(_, _)
Listing(keys, tier) ==
  IF keys = <<>> THEN <<>>
  ELSE <<FileEntry("ok", tier[Head(keys)].hash, tier[Head(keys)].decision)>>
       \o Listing(Tail(keys), tier)
SavedFile_notFlushed(tier) == FileOf("present", "object", "list", <<>>)
SavedFile(tier) ==
  FileOf("present", "object", "list", Listing(SeqOf(DOMAIN tier), tier))
CutFile == FileOf("present", "invalid_json", "None", <<>>)

\* What reading one entry does (lines 136-142): TypeError on a value that
\* cannot be indexed by a field name, KeyError on a missing field,
\* ValueError on an unknown decision value.
EntryError(e) ==
  IF e.shape = "not_object" THEN "TypeError"
  ELSE IF e.shape = "no_field" THEN "KeyError"
  ELSE IF e.decision \notin Decisions THEN "ValueError"
  ELSE "None"

\* `except (json.JSONDecodeError, KeyError, ValueError)`
CaughtOnLoad == {"JSONDecodeError", "KeyError", "ValueError"}

LoadResult(tier, error) ==
  [tier |-> tier,
   raised |-> IF error \in CaughtOnLoad THEN "None" ELSE error]

\* the loop of _load_persistent: the entries are put into the tier one by
\* one, under the hash the entry gives, until one of them fails
RECURSIVE LoadEntries(_, _)
LoadEntries(entries, tier) ==
  IF entries = <<>> THEN LoadResult(tier, "None")
  ELSE LET e == Head(entries)
       IN  IF EntryError(e) # "None" THEN LoadResult(tier, EntryError(e))
           ELSE LoadEntries(Tail(entries),
                  Put(tier, e.hash,
                      [action |-> e.action, target |-> e.target,
                       decision |-> e.decision, hash |-> e.hash]))

\* _load_persistent over an empty persistent_permissions: the tier it
\* leaves and the exception it lets out ("None" when it returns)
LoadPersistent(file) ==
  IF file.state = "missing" THEN LoadResult(EmptyTier, "None")
  ELSE IF file.state = "unreadable" THEN LoadResult(EmptyTier, "OSError")
  ELSE IF file.top = "invalid_json"
       THEN LoadResult(EmptyTier, "JSONDecodeError")
  ELSE IF file.top = "not_object"
       THEN LoadResult(EmptyTier, "AttributeError")
  ELSE IF file.plist = "absent" THEN LoadResult(EmptyTier, "None")
  ELSE IF file.plist = "not_list" THEN LoadResult(EmptyTier, "TypeError")
  ELSE LoadEntries(file.entries, EmptyTier)

\* store_permission; saved says whether _save_persistent came back
StorePermission_onlyDenySkipped(action, target, decision, saved) ==
  LET h == GenerateHash(action, target)
      perm == StoredPermission(action, target, decision)
  IN  IF decision = "deny"
      THEN UNCHANGED cacheVars
      ELSE /\ session_permissions' = Put(session_permissions, h, perm)
           /\ UNCHANGED <<persistent_permissions, storage_file>>
StorePermission(action, target, decision, saved) ==
  LET h == GenerateHash(action, target)
      perm == StoredPermission(action, target, decision)
  IN  IF decision \in {"allow_once", "deny"}
      THEN UNCHANGED cacheVars
      ELSE IF decision = "allow_session"
      THEN /\ session_permissions' = Put(session_permissions, h, perm)
           /\ UNCHANGED <<persistent_permissions, storage_file>>
      ELSE /\ session_permissions' = Put(session_permissions, h, perm)
           /\ persistent_permissions' = Put(persistent_permissions, h, perm)
           /\ IF saved
              THEN storage_file' = SavedFile(persistent_permissions')
              ELSE storage_file' \in {storage_file, CutFile}

(***************************************************************************)
(* The cache called directly: the constructor, check_permission and        *)
(* store_permission, in any order, over any backing file.                  *)
(***************************************************************************)
\* the longest "permissions" list of a file the cache is constructed over
MaxFileEntries == 2

\* the keys the callers use: those of the requests, and the same path
\* under another action
CacheKeys == Hashes \cup {GenerateHash("Edit", <<"/", "ws", "a.txt">>)}
NoKey == <<"None", <<>>>>

Call(op, key, decision, raised) ==
  [op |-> op, key |-> key, decision |-> decision, raised |-> raised]
NoCall == Call("None", NoKey, "None", "None")

\* the files a constructor can find
GoodEntries == {FileEntry("ok", k, "allow_always") : k \in Hashes}
BadEntries ==
  LET k == GenerateHash("Edit", <<"/", "ws", "a.txt">>)
  IN  {FileEntry("not_object", k, "None"),
       FileEntry("no_field", k, "allow_always"),
       FileEntry("ok", k, "bogus")}
RECURSIVE EntryLists(_)
EntryLists(n) ==
  IF n = 0 THEN {<<>>}
  ELSE EntryLists(n - 1) \cup
       {Append(l, e) : l \in {m \in EntryLists(n - 1) : Len(m) = n - 1},
                       e \in GoodEntries \cup BadEntries}
FileContents ==
  {MissingFile, UnreadableFile, CutFile,
   FileOf("present", "not_object", "None", <<>>),
   FileOf("present", "object", "absent", <<>>),
   FileOf("present", "object", "not_list", <<>>)}
  \cup {FileOf("present", "object", "list", l) :
          l \in EntryLists(MaxFileEntries)}

bridgeButCache == <<conn, requests, elicit_calls>>

\* PermissionManager.__init__: at the start, or again over the same file
\* (each execute_claude call of server.py constructs its own, line 76, as
\* does a restart of the server): empty tiers, then _load_persistent
Construct ==
  /\ cache_pc \in {"new", "ready"}
  /\ LET r == LoadPersistent(storage_file)
     IN  /\ session_permissions' = EmptyTier
         /\ persistent_permissions' = r.tier
         /\ cache_pc' = IF r.raised = "None" THEN "ready" ELSE "raised"
         /\ cache_op' = Call("init", NoKey, "None", r.raised)
  /\ stored_always' = {}
  /\ UNCHANGED <<storage_file, write_failed>>
  /\ UNCHANGED <<execVars, bridgeButCache, helperVars, unitVars>>

\* check_permission(action, target)
Check(k) ==
  /\ cache_pc = "ready"
  /\ cache_op' = Call("check", k, CheckPermission(k[1], k[2]).decision, "None")
  /\ UNCHANGED <<cacheVars, cache_pc, stored_always, write_failed>>
  /\ UNCHANGED <<execVars, bridgeButCache, helperVars, unitVars>>

\* store_permission(action, target, decision) returns
Store(k, decision) ==
  /\ cache_pc = "ready"
  /\ StorePermission(k[1], k[2], decision, TRUE)
  /\ cache_op' = Call("store", k, decision, "None")
  /\ IF decision = "allow_always"
     THEN stored_always' = stored_always \cup {k} /\ write_failed' = FALSE
     ELSE UNCHANGED <<stored_always, write_failed>>
  /\ UNCHANGED cache_pc
  /\ UNCHANGED <<execVars, bridgeButCache, helperVars, unitVars>>

\* store_permission(action, target, ALLOW_ALWAYS) raises out of
\* _save_persistent (mkdir, open or the write fails)
StoreSaveFails(k) ==
  /\ cache_pc = "ready"
  /\ StorePermission(k[1], k[2], "allow_always", FALSE)
  /\ cache_op' = Call("store", k, "allow_always", "OSError")
  /\ write_failed' = TRUE
  /\ UNCHANGED <<cache_pc, stored_always>>
  /\ UNCHANGED <<execVars, bridgeButCache, helperVars, unitVars>>

(***************************************************************************)
(* The bridge server: _handle_connection of callback_server.py and the     *)
(* elicitation_callback that _setup_permission_server hands to it.  The    *)
(* event loop runs one task at a time, so a handler runs undisturbed from  *)
(* one await to the next.                                                  *)
(***************************************************************************)
NoRequest == [kind |-> "none", tool_name |-> "None", tool_input |-> <<>>]

\* what arrives on a connection: a permission request, or a line that is not
\* one (nothing at all, nothing within the read timeout, invalid JSON, JSON
\* that is no object, an object of another type)
RequestLines ==
  UNION {[kind : {"permission_request"}, tool_name : {t},
          tool_input : ToolInputs[t]] : t \in Tools}
  \cup
  [kind : {"empty", "timeout", "invalid_json", "not_object", "other_type"},
   tool_name : {"None"}, tool_input : {<<>>}]

\* the options handed to ctx.elicit
Labels == {"Allow Once", "Allow Session", "Allow Always", "Deny"}

\* what ctx.elicit returns
ElicitResults ==
  [action : {"accept"}, data : Labels]
  \cup [action : {"decline", "cancel"}, data : {"None"}]
NoElicitResult == [action |-> "none", data |-> "None"]

\* the response line written to the connection; granted is the truth value
\* of the object's "granted" field (false when the field is missing)
NoReply == [written |-> FALSE, granted |-> FALSE, decision |-> "None",
            message |-> "None"]
Granted(decision) ==
  [written |-> TRUE, granted |-> TRUE, decision |-> decision,
   message |-> "None"]
Refused_granting(message) ==
  [written |-> TRUE, granted |-> TRUE, decision |-> "None",
   message |-> message]
Refused(message) ==
  [written |-> TRUE, granted |-> FALSE, decision |-> "None",
   message |-> message]

IdleConn == [pc |-> "closed", request |-> NoRequest, target |-> <<>>,
             options |-> {}, answer |-> NoElicitResult, reply |-> NoReply,
             saved |-> TRUE]

\* `if result.action != "accept" or result.data == "Deny":`
Denied_onlyDeny(ans) == ans.data = "Deny"
Denied(ans) == ans.action # "accept" \/ ans.data = "Deny"

\* everything of the orchestrator but the two permission counters
execButPermissionCounters ==
  <<ctlVars, cfgVars, srvVars, procVars, session_id, round, localVars, tickVars,
    choices_asked, questions_asked, confirmations_asked, histVars>>

\* a connection is accepted and its request line handled, up to the response
\* or to the callback's await of ctx.elicit
HandleConnection(c, req) ==
  /\ callback_server
  /\ conn[c].pc = "closed"
  /\ requests < MaxRequests
  /\ requests' = requests + 1
  /\ IF req.kind = "permission_request"
     THEN LET target == FormatPermissionTarget(req.tool_name, req.tool_input)
              existing == CheckPermission(req.tool_name, target)
          IN  IF existing # NoPermission
              THEN /\ permissions_requested' = permissions_requested + 1
                   /\ permissions_granted' = permissions_granted + 1
                   /\ conn' = [conn EXCEPT ![c] =
                        [IdleConn EXCEPT !.pc = "answered", !.request = req,
                           !.target = target,
                           !.reply = Granted(existing.decision)]]
                   /\ UNCHANGED elicit_calls
              ELSE /\ conn' = [conn EXCEPT ![c] =
                        [IdleConn EXCEPT !.pc = "eliciting", !.request = req,
                           !.target = target, !.options = Labels]]
                   /\ elicit_calls' = elicit_calls + 1
                   /\ UNCHANGED <<permissions_requested, permissions_granted>>
     ELSE /\ conn' = [conn EXCEPT ![c] =
               [IdleConn EXCEPT !.pc = "answered", !.request = req,
                  !.reply =
                    CASE req.kind = "empty"        -> NoReply
                      [] req.kind = "timeout"      -> Refused("Request timed out")
                      [] req.kind = "invalid_json" -> Refused("Invalid JSON")
                      [] req.kind = "not_object"   -> Refused("Internal error")
                      [] req.kind = "other_type"   ->
                           Refused("Invalid request type")]]
          /\ UNCHANGED <<elicit_calls, permissions_requested,
                         permissions_granted>>
  /\ UNCHANGED <<execButPermissionCounters, cacheVars, helperVars, unitVars>>
  /\ UNCHANGED callVars

\* ctx.elicit returns: count, decide, store, respond
ElicitReturns(c, ans) ==
  /\ conn[c].pc = "eliciting"
  /\ permissions_requested' = permissions_requested + 1
  /\ IF Denied(ans)
     THEN /\ conn' = [conn EXCEPT ![c].pc = "answered", ![c].answer = ans,
                        ![c].reply = Refused("Permission denied by user")]
          /\ UNCHANGED <<permissions_granted, cacheVars>>
     ELSE /\ permissions_granted' = permissions_granted + 1
          /\ IF ans.data = "Allow Session"
             THEN StorePermission(conn[c].request.tool_name, conn[c].target,
                                  "allow_session", TRUE)
             ELSE IF ans.data = "Allow Always"
             THEN StorePermission(conn[c].request.tool_name, conn[c].target,
                                  "allow_always", TRUE)
             ELSE UNCHANGED cacheVars
          /\ conn' = [conn EXCEPT ![c].pc = "answered", ![c].answer = ans,
                        ![c].reply = Granted(ans.data)]
  /\ UNCHANGED <<execButPermissionCounters, requests, elicit_calls,
                 helperVars, unitVars>>
  /\ UNCHANGED callVars

\* ctx.elicit returns Allow Always and _save_persistent raises: the handler's
\* `except Exception` answers
ElicitReturnsSaveFails(c) ==
  /\ conn[c].pc = "eliciting"
  /\ permissions_requested' = permissions_requested + 1
  /\ permissions_granted' = permissions_granted + 1
  /\ StorePermission(conn[c].request.tool_name, conn[c].target,
                     "allow_always", FALSE)
  /\ conn' = [conn EXCEPT ![c].pc = "answered",
                ![c].answer = [action |-> "accept", data |-> "Allow Always"],
                ![c].saved = FALSE,
                ![c].reply = Refused("Internal error")]
  /\ UNCHANGED <<execButPermissionCounters, requests, elicit_calls,
                 helperVars, unitVars>>
  /\ UNCHANGED callVars

\* ctx.elicit raises
ElicitRaises(c) ==
  /\ conn[c].pc = "eliciting"
  /\ conn' = [conn EXCEPT ![c].pc = "answered",
                ![c].answer = [action |-> "raised", data |-> "None"],
                ![c].reply = Refused("Internal error")]
  /\ UNCHANGED <<execButPermissionCounters, permissions_requested,
                 permissions_granted, cacheVars, requests, elicit_calls,
                 helperVars, unitVars>>
  /\ UNCHANGED callVars

\* the finally clause has closed the writer; the slot takes the next
\* connection
CloseConnection(c) ==
  /\ conn[c].pc = "answered"
  /\ conn' = [conn EXCEPT ![c] = IdleConn]
  /\ UNCHANGED <<execVars, cacheVars, requests, elicit_calls, helperVars, unitVars>>
  /\ UNCHANGED callVars

\* PermissionManager.__init__ over a file, and no connection yet
BridgeInitOver(file) ==
  /\ storage_file = file
  /\ LoadPersistent(file).raised = "None"
  /\ persistent_permissions = LoadPersistent(file).tier
  /\ session_permissions = EmptyTier
  /\ cache_pc = "ready"
  /\ cache_op = NoCall
  /\ stored_always = {}
  /\ write_failed = FALSE
  /\ conn = [c \in Conns |-> IdleConn]
  /\ requests = 0
  /\ elicit_calls = 0

(***************************************************************************)
(* The stream parser: ClaudeEvent.from_json_line of models/events.py and   *)
(* StreamParser.parse_events of stream_parser.py.                          *)
(***************************************************************************)
\* the most lines a stream of the model holds
MaxLines == 3

\* ClaudeEventType, by value
EventTypeValues == {"init", "user", "assistant", "tool_use", "tool_result",
                   "result", "unknown"}

\* A line of the stream.  ws: whether white space surrounds its text; json:
\* what json.loads makes of the text ("blank" for a line of white space
\* only, "invalid" when it raises JSONDecodeError, else the kind of value
\* it returns); type: the object's "type" ("absent", an enum value,
\* another string, or a value that is no string); message: its "message"
\* (absent, no object, or an object); content: the message's "content"
\* (absent, a list, or a value that cannot be iterated, such as null).
\* session_id: the object's "session_id" ("absent", or its value).
Line(ws, json, type, message, content) ==
  [ws |-> ws, json |-> json, type |-> type, message |-> message,
   content |-> content, session_id |-> "absent"]
WithSession(line, sid) == [line EXCEPT !.session_id = sid]
ObjectLines ==
  {Line(FALSE, "object", t, "absent", "absent") :
     t \in {"absent", "init", "result", "unknown", "bogus", "non_string"}}
  \cup {Line(FALSE, "object", t, "object", c) :
          t \in {"assistant", "bogus"}, c \in {"list", "not_iterable"}}
  \cup {Line(FALSE, "object", "assistant", "not_object", "absent"),
        Line(TRUE, "object", "assistant", "object", "absent")}
Lines ==
  ObjectLines
  \cup {Line(TRUE, "blank", "absent", "absent", "absent"),
        Line(FALSE, "invalid", "absent", "absent", "absent"),
        Line(TRUE, "not_object", "absent", "absent", "absent")}

\* what readline gives: a line, or an exception
ReadFailure == Line(FALSE, "read_error", "absent", "absent", "absent")
StreamItems == Lines \cup {ReadFailure}
RECURSIVE Streams(_)
Streams(n) ==
  IF n = 0 THEN {<<>>}
  ELSE Streams(n - 1) \cup
       {Append(s, l) : s \in {t \in Streams(n - 1) : Len(t) = n - 1},
                       l \in StreamItems}

\* line.strip()
StripLine(line) == [line EXCEPT !.ws = FALSE]

\* ClaudeEventType(data.get("type", "unknown")): the member, or ValueError
EventTypeOf(type) ==
  IF type = "absent" THEN "unknown"
  ELSE IF type \in EventTypeValues THEN type
  ELSE "ValueError"

ClaudeEvent(type, data, raw_line, message) ==
  [raised |-> "None", type |-> type, data |-> data, raw_line |-> raw_line,
   message |-> message]
DecodeRaises(exc, line) ==
  [raised |-> exc, type |-> "None", data |-> "None", raw_line |-> line,
   message |-> FALSE]

\* from_json_line: data is the parsed object ("parsed") or {"raw": line}
FromJsonLine(line) ==
  IF line.json \in {"invalid", "blank"}
  THEN ClaudeEvent("unknown", "raw", line, FALSE)
  ELSE IF line.json # "object" THEN DecodeRaises("AttributeError", line)
  ELSE IF EventTypeOf(line.type) = "ValueError"
  THEN ClaudeEvent("unknown", "raw", line, FALSE)
  ELSE IF line.message # "object"
  THEN ClaudeEvent(EventTypeOf(line.type), "parsed", line, FALSE)
  ELSE IF line.content = "not_iterable"
  THEN DecodeRaises("TypeError", line)
  ELSE ClaudeEvent(EventTypeOf(line.type), "parsed", line, TRUE)

\* one turn of parse_events: a line is read, stripped, skipped when blank,
\* else decoded and yielded
NextLine ==
  /\ p_pc = "reading"
  /\ stdout_stream # <<>>
  /\ Head(stdout_stream) # ReadFailure
  /\ stdout_stream' = Tail(stdout_stream)
  /\ LET line == StripLine(Head(stdout_stream))
     IN  IF line.json = "blank"
         THEN UNCHANGED <<p_pc, yielded, lines_read>>
         ELSE /\ lines_read' = Append(lines_read, line)
              /\ IF FromJsonLine(line).raised = "None"
                 THEN /\ yielded' = Append(yielded, FromJsonLine(line))
                      /\ UNCHANGED p_pc
                 ELSE p_pc' = "raised" /\ UNCHANGED yielded
  /\ UNCHANGED <<execVars, bridgeVars, helperVars, detectorVars>>

\* readline returns b"": _read_lines breaks
EndOfStream ==
  /\ p_pc = "reading"
  /\ stdout_stream = <<>>
  /\ p_pc' = "ended"
  /\ UNCHANGED <<stdout_stream, yielded, lines_read>>
  /\ UNCHANGED <<execVars, bridgeVars, helperVars, detectorVars>>

\* readline raises: _read_lines logs and breaks
ReadError ==
  /\ p_pc = "reading"
  /\ stdout_stream # <<>>
  /\ Head(stdout_stream) = ReadFailure
  /\ p_pc' = "ended"
  /\ stdout_stream' = Tail(stdout_stream)
  /\ UNCHANGED <<yielded, lines_read>>
  /\ UNCHANGED <<execVars, bridgeVars, helperVars, detectorVars>>

\* parse_events is called over this stream
ParserInitOver(stream) ==
  /\ stdout_stream = stream
  /\ p_pc = "reading"
  /\ yielded = <<>>
  /\ lines_read = <<>>

(***************************************************************************)
(* The interaction detector: executor/interaction_handler.py.              *)
(*                                                                         *)
(* A text is a sequence of tokens: the characters "{", "}", "[", "]", the  *)
(* double quote "q", the backslash "b", any other character "x" (which     *)
(* reads as a number where JSON wants a value), and the quoted names, each *)
(* standing for the characters quote, name, quote: the three sentinel keys *)
(* "KC", "KQ", "KF" and the field names "Kq" ("question"), "Ko"            *)
(* ("options").  Colons, commas and blanks are left out of the texts.      *)
(***************************************************************************)
MARKER_CHOICE == "KC"
MARKER_QUESTION == "KQ"
MARKER_CONFIRMATION == "KF"
Markers == {MARKER_CHOICE, MARKER_QUESTION, MARKER_CONFIRMATION}
QuotedNames == Markers \cup {"Kq", "Ko"}

\* _extract_balanced_json's loop from index i on: the index of the brace
\* that brings depth back to 0, or 0 when the text ends before
RECURSIVE ScanBalanced(_, _, _, _, _)
ScanBalanced(text, i, depth, in_string, escape_next) ==
  IF i > Len(text) THEN 0
  ELSE LET char == text[i]
           go(d, s, e) == ScanBalanced(text, i + 1, d, s, e)
       IN  IF char \in QuotedNames
           THEN \* an escaped quote, the name, a quote; or two quotes
                go(depth, IF escape_next THEN ~in_string ELSE in_string, FALSE)
           ELSE IF escape_next THEN go(depth, in_string, FALSE)
           ELSE IF char = "b" THEN go(depth, in_string, TRUE)
           ELSE IF char = "q" THEN go(depth, ~in_string, FALSE)
           ELSE IF in_string THEN go(depth, in_string, FALSE)
           ELSE IF char = "{" THEN go(depth + 1, in_string, FALSE)
           ELSE IF char = "}"
           THEN IF depth - 1 = 0 THEN i ELSE go(depth - 1, in_string, FALSE)
           ELSE go(depth, in_string, FALSE)

\* _extract_balanced_json: the substring, or <<>> for None
ExtractBalancedJson(text, start_idx) ==
  IF start_idx > Len(text) \/ text[start_idx] # "{" THEN <<>>
  ELSE LET end == ScanBalanced(text, start_idx, 0, FALSE, FALSE)
       IN  IF end = 0 THEN <<>> ELSE SubSeq(text, start_idx, end)

\* A JSON value as far as the detector looks at it: its kind, the members
\* of an object (key and value, in order), the length of a list or string.
JsonValue(kind, members, n) == [kind |-> kind, members |-> members, n |-> n]
NoValue == JsonValue("none", <<>>, 0)
Parsed(next, key, val) == [ok |-> TRUE, next |-> next, key |-> key, val |-> val]
ParseError == [ok |-> FALSE, next |-> 0, key |-> "None", val |-> NoValue]

\* json.loads, by recursive descent from token i on
RECURSIVE ParseString(_, _, _)
RECURSIVE ParseValue(_, _)
RECURSIVE ParseMembers(_, _, _)
RECURSIVE ParseItems(_, _, _)

\* the characters of a string from token j on, n of them read so far
ParseString(t, j, n) ==
  IF j > Len(t) THEN ParseError
  ELSE IF t[j] = "q" THEN Parsed(j + 1, "s", JsonValue("str", <<>>, n))
  ELSE IF t[j] = "b"
  THEN IF j + 1 > Len(t) THEN ParseError
       ELSE IF t[j + 1] \in {"q", "b", "x"} THEN ParseString(t, j + 2, n + 1)
       ELSE IF t[j + 1] \in QuotedNames
       THEN Parsed(j + 2, "s", JsonValue("str", <<>>, n + 2))
       ELSE ParseError
  ELSE IF t[j] \in QuotedNames THEN ParseError
  ELSE ParseString(t, j + 1, n + 1)

ParseValue(t, i) ==
  IF i > Len(t) THEN ParseError
  ELSE IF t[i] \in QuotedNames
  THEN Parsed(i + 1, t[i], JsonValue("str", <<>>, 1))
  ELSE IF t[i] = "q" THEN ParseString(t, i + 1, 0)
  ELSE IF t[i] = "x" THEN Parsed(i + 1, "None", JsonValue("num", <<>>, 0))
  ELSE IF t[i] = "{" THEN ParseMembers(t, i + 1, <<>>)
  ELSE IF t[i] = "[" THEN ParseItems(t, i + 1, 0)
  ELSE ParseError

ParseMembers(t, i, members) ==
  IF i > Len(t) THEN ParseError
  ELSE IF t[i] = "}"
  THEN Parsed(i + 1, "None", JsonValue("obj", members, Len(members)))
  ELSE LET k == ParseValue(t, i)
       IN  IF ~k.ok \/ k.val.kind # "str" THEN ParseError
           ELSE LET v == ParseValue(t, k.next)
                IN  IF ~v.ok THEN ParseError
                    ELSE ParseMembers(t, v.next,
                           Append(members, [key |-> k.key, val |-> v.val]))

ParseItems(t, i, n) ==
  IF i > Len(t) THEN ParseError
  ELSE IF t[i] = "]" THEN Parsed(i + 1, "None", JsonValue("list", <<>>, n))
  ELSE LET v == ParseValue(t, i)
       IN  IF ~v.ok THEN ParseError ELSE ParseItems(t, v.next, n + 1)

\* json.loads(json_str): the value, or NoValue for JSONDecodeError
JsonLoads(t) ==
  LET r == ParseValue(t, 1)
  IN  IF r.ok /\ r.next = Len(t) + 1 THEN r.val ELSE NoValue

\* `key in obj` and obj[key] of a dictionary (the last member wins)
HasKey(obj, key) ==
  obj.kind = "obj" /\ \E i \in 1..Len(obj.members) : obj.members[i].key = key
Lookup(obj, key) ==
  LET i == CHOOSE i \in 1..Len(obj.members) :
             /\ obj.members[i].key = key
             /\ \A j \in (i + 1)..Len(obj.members) : obj.members[j].key # key
  IN  obj.members[i].val

\* text.find(marker_str) and text.rfind("{", 0, idx), 0 for -1
Find(text, token) ==
  IF \E i \in 1..Len(text) : text[i] = token
  THEN CHOOSE i \in 1..Len(text) :
         text[i] = token /\ \A j \in 1..(i - 1) : text[j] # token
  ELSE 0
RFindBrace(text, idx) ==
  IF \E i \in 1..(idx - 1) : text[i] = "{"
  THEN CHOOSE i \in 1..(idx - 1) :
         text[i] = "{" /\ \A j \in (i + 1)..(idx - 1) : text[j] # "{"
  ELSE 0

\* _extract_json_marker: the marker's dictionary, or NoValue for None
ExtractJsonMarker(text, marker) ==
  LET idx == Find(text, marker)
      start_idx == RFindBrace(text, idx)
      json_str == ExtractBalancedJson(text, start_idx)
      full_obj == JsonLoads(json_str)
  IN  IF idx = 0 \/ start_idx = 0 \/ json_str = <<>> THEN NoValue
      ELSE IF HasKey(full_obj, marker) /\ Lookup(full_obj, marker).kind = "obj"
      THEN Lookup(full_obj, marker)
      ELSE NoValue

\* The marker detected: its kind and the values of its fields
Interaction(kind, question, options) ==
  [kind |-> kind, question |-> question, options |-> options]
NoInteraction == Interaction("none", NoValue, NoValue)

\* `if not data: return None`
Falsy(data) == data.kind # "obj" \/ data.members = <<>>

\* _detect_choice, _detect_question, _detect_confirmation
DetectChoice(text) ==
  LET data == ExtractJsonMarker(text, MARKER_CHOICE)
  IN  IF Falsy(data) \/ ~HasKey(data, "Kq") \/ ~HasKey(data, "Ko")
      THEN NoInteraction
      ELSE Interaction("choice", Lookup(data, "Kq"), Lookup(data, "Ko"))
DetectQuestion(text) ==
  LET data == ExtractJsonMarker(text, MARKER_QUESTION)
  IN  IF Falsy(data) \/ ~HasKey(data, "Kq") THEN NoInteraction
      ELSE Interaction("question", Lookup(data, "Kq"), NoValue)
DetectConfirmation(text) ==
  LET data == ExtractJsonMarker(text, MARKER_CONFIRMATION)
  IN  IF Falsy(data) \/ ~HasKey(data, "Kq") THEN NoInteraction
      ELSE Interaction("confirmation", Lookup(data, "Kq"), NoValue)

\* the cascade of handle_event over the text of an assistant event
DetectInText(text) ==
  IF DetectChoice(text) # NoInteraction THEN DetectChoice(text)
  ELSE IF DetectQuestion(text) # NoInteraction THEN DetectQuestion(text)
  ELSE DetectConfirmation(text)

\* The texts of the model: up to MaxMarkers marker objects one after the
\* other, between a prefix and a suffix of unrelated text.
MaxMarkers == 2

QuestionField == <<"Kq", "q", "x", "q">>
OptionsField == <<"Ko", "[", "q", "x", "q", "]">>
Object(members) == <<"{">> \o members \o <<"}">>
ChoiceData == Object(QuestionField \o OptionsField)
QuestionData == Object(QuestionField)

MarkerObjects ==
  { \* the three markers as the agent is told to write them
    Object(<<"KC">> \o ChoiceData),
    Object(<<"KQ">> \o QuestionData),
    Object(<<"KF">> \o QuestionData),
    \* fields missing, an empty option list, no fields, invalid JSON, a
    \* value that is no object, a missing closing brace
    Object(<<"KC">> \o QuestionData),
    Object(<<"KC">> \o Object(OptionsField)),
    Object(<<"KC">> \o Object(QuestionField \o <<"Ko", "[", "]">>)),
    Object(<<"KQ">> \o Object(<<>>)),
    Object(<<"KF">> \o Object(<<"q", "x", "q", "x">>)),
    Object(<<"KC">> \o Object(QuestionField \o <<"Ko", "[", "q", "x", "q">>)),
    Object(<<"KQ", "q", "x", "q">>),
    <<"{", "KF">> \o QuestionData,
    \* braces and escaped quotes in the strings of the marker
    Object(<<"KC">> \o
           Object(<<"Kq", "q", "x", "{", "b", "q", "}", "q">> \o OptionsField)),
    \* an object, or a string holding a brace, before the sentinel key
    Object(<<"q", "x", "q", "{", "}", "KC">> \o ChoiceData),
    Object(<<"q", "x", "q", "q", "{", "q", "KQ">> \o QuestionData),
    \* two sentinel keys in one object
    Object(<<"KQ">> \o QuestionData \o <<"KC">> \o ChoiceData),
    Object(<<"KF">> \o QuestionData \o <<"KQ">> \o QuestionData) }

Prefixes ==
  {<<>>, <<"x", "{", "q", "x", "q", "{", "}", "}", "x">>, <<"x", "KC", "x">>}
Suffixes == {<<>>, <<"x", "{", "q", "x", "q", "q", "}", "q", "}">>}

RECURSIVE MarkerRuns(_)
MarkerRuns(n) ==
  IF n = 0 THEN {<<>>}
  ELSE MarkerRuns(n - 1) \cup
       {r \o m : r \in MarkerRuns(n - 1), m \in MarkerObjects}
Texts ==
  {p \o r \o s : p \in Prefixes, r \in MarkerRuns(MaxMarkers), s \in Suffixes}

\* an event as handle_event sees it: its type and its text content
TextEvent(type, text) == [type |-> type, text |-> text]
NoTextEvent == TextEvent("none", <<>>)
TextEvents == {TextEvent(t, x) : t \in {"assistant", "user"}, x \in Texts}

\* choice.options[0]
Subscriptable(options) == options.kind \in {"list", "str"} /\ options.n > 0

execButCounters == <<ctlVars, cfgVars, srvVars, procVars, session_id, round,
                     localVars, histVars, tickVars>>

\* handle_event up to its return or to its ctx.elicit
HandleEvent ==
  /\ d_pc = "idle"
  /\ d_event # NoTextEvent
  /\ LET found == IF d_event.type = "assistant" /\ d_event.text # <<>>
                  THEN DetectInText(d_event.text)
                  ELSE NoInteraction
     IN  /\ d_interaction' = found
         /\ IF found = NoInteraction
            THEN d_pc' = "returned" /\ UNCHANGED d_elicits
            ELSE d_pc' = "eliciting" /\ d_elicits' = d_elicits + 1
  /\ UNCHANGED <<d_event, d_response>>
  /\ UNCHANGED <<execVars, bridgeVars, helperVars, parserVars>>

\* the Host accepts: the response is returned, and the read loop counts it
\* (`if response: self._update_metrics(response["type"])`)
ElicitAccepted ==
  /\ d_pc = "eliciting"
  /\ d_pc' = "returned"
  /\ d_response' = d_interaction.kind
  /\ UpdateMetrics(d_interaction.kind)
  /\ UNCHANGED <<d_event, d_interaction, d_elicits>>
  /\ UNCHANGED <<execButCounters, bridgeVars, helperVars, parserVars>>

\* the Host does not accept: a choice takes options[0], a question its
\* default or "Skipped", a confirmation "No"
ElicitDeclined ==
  /\ d_pc = "eliciting"
  /\ IF d_interaction.kind = "choice" /\ ~Subscriptable(d_interaction.options)
     THEN /\ d_pc' = "raised"
          /\ UNCHANGED <<d_response, metricVars>>
     ELSE /\ d_pc' = "returned"
          /\ d_response' = d_interaction.kind
          /\ UpdateMetrics(d_interaction.kind)
  /\ UNCHANGED <<d_event, d_interaction, d_elicits>>
  /\ UNCHANGED <<execButCounters, bridgeVars, helperVars, parserVars>>

\* ctx.elicit raises
ElicitFailed ==
  /\ d_pc = "eliciting"
  /\ d_pc' = "raised"
  /\ UNCHANGED <<d_event, d_interaction, d_elicits, d_response>>
  /\ UNCHANGED <<execVars, bridgeVars, helperVars, parserVars>>

\* event.data["session_id"] where "session_id" in event.data: data is the
\* line's object, or {"raw": line}, which has no such key
SessionIdIn(ev) ==
  IF ev.data = "parsed" THEN ev.raw_line.session_id ELSE "absent"

\* lines 247-250 and 600-602 of the read loops
Capture(sid, ev) ==
  IF SessionIdIn(ev) # "absent" THEN SessionIdIn(ev) ELSE sid

\* handle_event is about to be called with this event
DetectorInitOver(e) ==
  /\ d_event = e
  /\ d_pc = "idle"
  /\ d_interaction = NoInteraction
  /\ d_elicits = 0
  /\ d_response = "None"

(***************************************************************************)
(* The helper: request_permission_via_socket of approver.py.               *)
(***************************************************************************)
\* the largest retry_attempts a caller passes
MaxRetryAttempts == 3
\* the defaults; delays are in tenths of a second
DEFAULT_RETRY_ATTEMPTS == 3
DEFAULT_RETRY_DELAY == 1

RetryDelays == {DEFAULT_RETRY_DELAY, 3 * DEFAULT_RETRY_DELAY}

\* How one pass of the try block can go: the connection is refused; another
\* exception (no socket file, a broken pipe, a response that is JSON but no
\* object, a failure while closing); no response within the timeout; a
\* response that is not JSON (an empty one too); a response object.
RetriedFailures == {"refused", "socket_error", "not_object", "close_error"}
FinalFailures == {"timeout", "invalid_json", "empty"}
\* the response object {}
EmptyObject == [written |-> TRUE, granted |-> FALSE, decision |-> "None",
                message |-> "None"]
Replies ==
  {Granted(d) : d \in {"allow_once", "Allow Always"}}
  \cup {Refused("Permission denied by user"), EmptyObject}
Exchanges ==
  [kind : RetriedFailures \cup FinalFailures, reply : {NoReply}]
  \cup [kind : {"reply"}, reply : Replies]
NoExchange == [kind |-> "none", reply |-> NoReply]

\* `for attempt in range(retry_attempts)`
MoreAttempts_inclusive(a, n) == a <= n
MoreAttempts(a, n) == a < n

\* `if attempt < retry_attempts - 1:`
SleepsBeforeRetry_afterLast(a, n) == a < n
SleepsBeforeRetry(a, n) == a < n - 1

\* `delay = retry_delay * (2 ** attempt)`
Backoff(delay, a) == delay * 2^a

\* the loop header: the next attempt, or "all retries exhausted"
LoopTest ==
  /\ h_pc = "loop"
  /\ IF MoreAttempts(attempt, retry_attempts)
     THEN h_pc' = "exchange" /\ UNCHANGED response
     ELSE /\ h_pc' = "done"
          /\ response' = Refused("Cannot connect to permission server")
  /\ UNCHANGED <<retry_attempts, retry_delay, attempt, last_error,
                 connections_made, last_exchange, sleeps, exchange_log,
                 toolVars>>
  /\ UNCHANGED <<execVars, bridgeVars, unitVars>>

\* the try block and its except clauses
Exchange(x) ==
  /\ h_pc = "exchange"
  /\ connections_made' = connections_made + 1
  /\ last_exchange' = x
  /\ exchange_log' = Append(exchange_log, x.kind)
  /\ IF x.kind \in RetriedFailures
     THEN /\ last_error' = x.kind
          /\ IF SleepsBeforeRetry(attempt, retry_attempts)
             THEN h_pc' = "sleep" /\ UNCHANGED attempt
             ELSE h_pc' = "loop" /\ attempt' = attempt + 1
          /\ UNCHANGED response
     ELSE /\ h_pc' = "done"
          /\ response' =
               CASE x.kind = "timeout" ->
                      Refused("Permission request timed out")
                 [] x.kind \in {"invalid_json", "empty"} ->
                      Refused("Invalid response from server")
                 [] x.kind = "reply" -> x.reply
          /\ UNCHANGED <<attempt, last_error>>
  /\ UNCHANGED <<retry_attempts, retry_delay, sleeps, toolVars>>
  /\ UNCHANGED <<execVars, bridgeVars, unitVars>>

\* asyncio.sleep(delay), then `continue`
Sleep ==
  /\ h_pc = "sleep"
  /\ sleeps' = Append(sleeps, Backoff(retry_delay, attempt))
  /\ attempt' = attempt + 1
  /\ h_pc' = "loop"
  /\ UNCHANGED <<retry_attempts, retry_delay, last_error, response,
                 connections_made, last_exchange, exchange_log, toolVars>>
  /\ UNCHANGED <<execVars, bridgeVars, unitVars>>

(***************************************************************************)
(* The helper's tool: call_tool of approver.py.                            *)
(***************************************************************************)
\* A tool input is the text it stands for (a Bash command), {} is EmptyDict;
\* an argument can also be absent, or a value that is no dictionary.
EmptyDict == <<>>
Absent == <<"absent">>
NotDict == <<"not_dict">>
NoToolCall == [name |-> "None", tool_name |-> "absent", tool_input |-> Absent,
               input |-> Absent, rest |-> EmptyDict]
\* the calls the agent makes: the tool's name, and the arguments tool_name,
\* tool_input and input; rest holds the arguments of any other name
ToolCalls ==
  [name : {"approve", "other"}, tool_name : {"Bash"},
   tool_input : {Absent, EmptyDict, NotDict, <<"l", "s">>},
   input : {Absent, <<" ", "l", "s", " ">>},
   rest : {EmptyDict, <<"l", "s">>}]

NoToolResult == [behavior |-> "none", updatedInput |-> Absent,
                 message |-> "None"]
AllowResult(tool_input) ==
  [behavior |-> "allow", updatedInput |-> tool_input, message |-> "None"]
DenyResult(message) ==
  [behavior |-> "deny", updatedInput |-> Absent, message |-> message]

\* Python truthiness of an argument
TruthyArgument(v) == v \notin {Absent, EmptyDict}

\* lines 191-203: tool_input, else input, else the other arguments; {} when
\* that is no dictionary
ExtractToolInput(arguments) ==
  LET first == IF TruthyArgument(arguments.tool_input)
               THEN arguments.tool_input ELSE arguments.input
      picked == IF TruthyArgument(first) THEN first ELSE arguments.rest
  IN  IF picked = NotDict THEN EmptyDict ELSE picked

\* lines 218-229: the bridge's decision as the agent's result
ToolResult_allowing(decision, tool_input) == AllowResult(tool_input)
ToolResult(decision, tool_input) ==
  IF decision.granted THEN AllowResult(tool_input)
  ELSE DenyResult(IF decision.message = "None" THEN "Permission denied"
                  ELSE decision.message)

\* call_tool up to its return for another tool, or to its call of
\* request_permission_via_socket
CallTool ==
  /\ h_pc = "called"
  /\ IF approver_call.name # "approve"
     THEN /\ approver_result' = DenyResult("Unknown tool")
          /\ h_pc' = "returned"
          /\ UNCHANGED approver_input
     ELSE /\ approver_input' = ExtractToolInput(approver_call)
          /\ h_pc' = "loop"
          /\ UNCHANGED approver_result
  /\ UNCHANGED <<retry_attempts, retry_delay, attempt, last_error, response,
                 connections_made, last_exchange, sleeps, exchange_log,
                 approver_call>>
  /\ UNCHANGED <<execVars, bridgeVars, unitVars>>

\* request_permission_via_socket has returned: the result goes to the agent
ReturnResult ==
  /\ h_pc = "done"
  /\ approver_call # NoToolCall
  /\ approver_result' = ToolResult(response, approver_input)
  /\ h_pc' = "returned"
  /\ UNCHANGED <<retry_attempts, retry_delay, attempt, last_error, response,
                 connections_made, last_exchange, sleeps, exchange_log,
                 approver_call, approver_input>>
  /\ UNCHANGED <<execVars, bridgeVars, unitVars>>

\* the request line the helper sends (lines 66-73); the bridge takes a Bash
\* input as its command's text, and an input without "command" as str of
\* the dictionary
RequestLine(tool_name, tool_input) ==
  [kind |-> "permission_request", tool_name |-> tool_name,
   tool_input |-> IF tool_input = EmptyDict THEN <<"{", "}">>
                  ELSE tool_input]

\* the call has not begun / begins with these arguments
HelperInitWith(pc0, n, delay) ==
  /\ approver_call = NoToolCall
  /\ approver_input = EmptyDict
  /\ approver_result = NoToolResult
  /\ h_pc = pc0
  /\ retry_attempts = n
  /\ retry_delay = delay
  /\ attempt = 0
  /\ last_error = "None"
  /\ response = NoReply
  /\ connections_made = 0
  /\ last_exchange = NoExchange
  /\ sleeps = <<>>
  /\ exchange_log = <<>>

\* no stream is being parsed, no event is being handled
UnitsIdle == ParserInitOver(<<>>) /\ DetectorInitOver(NoTextEvent)

(***************************************************************************)
(* The specifications.                                                     *)
(***************************************************************************)
\* the orchestrator in its read loop, the bridge set up
ExecReading ==
  /\ pc = "read"
  /\ ctx = TRUE
  /\ enable_permissions = TRUE
  /\ callback_server = TRUE
  /\ approver_config_path = TRUE
  /\ process = "running" /\ returncode = 0 /\ stderr_text = ""
  /\ cmd = BuildCommand(NoSession, TRUE)
  /\ stdin = <<PromptMessage>> /\ spawned = 1
  /\ session_id = NoSession
  /\ pending_resume_response = NoResponse
  /\ user_response = NoResponse
  /\ event = NoEvent
  /\ round = 0 /\ events_read = 0 /\ elapsed = 0
  /\ cont = "none"
  /\ choices_asked = 0 /\ questions_asked = 0 /\ confirmations_asked = 0
  /\ permissions_requested = 0 /\ permissions_granted = 0
  /\ outcome = "none" /\ result = NoResult
  /\ formed = 0 /\ delivered = <<>>
  /\ deadline_fired = FALSE /\ silent_gap = FALSE
  /\ loop_frames = 1 /\ heartbeats = 1 /\ heartbeat_reports = 0
  /\ progress_reports = 0

Init ==
  /\ ExecInit
  /\ BridgeInitOver(SavedFile(EmptyTier))
  /\ HelperInitWith("idle", DEFAULT_RETRY_ATTEMPTS, DEFAULT_RETRY_DELAY)
  /\ UnitsIdle

\* the steps of execute and of the agent process
ExecNext ==
  \/ \E ep \in BOOLEAN : Execute(ep)
  \/ Spawn \/ SpawnFails \/ SendPrompt \/ SendPromptFails
  \/ ProcExit
  \/ Tick
  \/ \E e \in Events : ReadEvent(e)
  \/ ReadEOF
  \/ ReportProgress \/ ReportProgressFails
  \/ \E ans \in ElicitAnswers : HostAnswers(ans)
  \/ \E ans \in ElicitAnswers : HostAnswersStdinFails(ans)
  \/ \E ans \in ElicitAnswers : HostAnswersTerminateRaises(ans)
  \/ HostFails
  \/ CheckEvent \/ CheckTerminateRaises
  \/ \E rc \in ExitCodes, err \in StderrTexts : WaitExit(rc, err)
  \/ TerminateExits \/ TerminateKills
  \/ Respawn \/ RespawnFails \/ SendResponse \/ SendResponseFails
  \/ Deadline \/ DeadlineTerminateRaises

Next == ExecNext \/ HeartbeatTick

Spec == Init /\ [][Next]_vars

\* permission requests the agent makes in one execution
MaxAgentRequests == 1

\* what the agent's helper sends to the bridge, and what the Host answers
AgentRequests ==
  {r \in RequestLines : r.kind = "permission_request" /\ r.tool_name = "Bash"}
HostDecisions ==
  {a \in ElicitResults : a.action \in {"accept", "decline"}
                          /\ a.data \in {"Allow Once", "None"}}

\* the orchestrator with the bridge it has set up: while execute runs, the
\* agent's helper connects to the bridge server and the Host answers (the
\* heartbeat reports are left out)
ExecBridgeNext ==
  \/ ExecNext
  \/ \E req \in AgentRequests :
       requests < MaxAgentRequests /\ HandleConnection(1, req)
  \/ \E ans \in HostDecisions : ElicitReturns(1, ans)
  \/ CloseConnection(1)

ExecBridgeSpec == Init /\ [][ExecBridgeNext]_vars

BridgeInit ==
  /\ ExecReading
  /\ \E tier \in PersistedTiers : BridgeInitOver(SavedFile(tier))
  /\ HelperInitWith("idle", DEFAULT_RETRY_ATTEMPTS, DEFAULT_RETRY_DELAY)
  /\ UnitsIdle

BridgeNext ==
  \/ \E c \in Conns, req \in RequestLines : HandleConnection(c, req)
  \/ \E c \in Conns, ans \in ElicitResults : ElicitReturns(c, ans)
  \/ \E c \in Conns : ElicitReturnsSaveFails(c)
  \/ \E c \in Conns : ElicitRaises(c)
  \/ \E c \in Conns : CloseConnection(c)

BridgeSpec == BridgeInit /\ [][BridgeNext]_vars

HelperInit ==
  /\ ExecInit
  /\ BridgeInitOver(SavedFile(EmptyTier))
  /\ \E n \in 0..MaxRetryAttempts, delay \in RetryDelays :
       HelperInitWith("loop", n, delay)
  /\ UnitsIdle

HelperNext ==
  \/ LoopTest
  \/ \E x \in Exchanges : Exchange(x)
  \/ Sleep

HelperSpec == HelperInit /\ [][HelperNext]_vars

\* The helper's tool with the bridge server behind it: every attempt of the
\* helper is a connection of the server, whose response the helper reads.
\* An attempt can also fail before the server has accepted it, and time out
\* or read something else than the response while the server handles it.
ApproverInit ==
  /\ ExecReading
  /\ \E tier \in PersistedTiers : BridgeInitOver(SavedFile(tier))
  /\ UnitsIdle
  /\ h_pc = "called"
  /\ approver_call \in ToolCalls
  /\ approver_input = EmptyDict
  /\ approver_result = NoToolResult
  /\ retry_attempts = DEFAULT_RETRY_ATTEMPTS
  /\ retry_delay = DEFAULT_RETRY_DELAY
  /\ attempt = 0
  /\ last_error = "None"
  /\ response = NoReply
  /\ connections_made = 0
  /\ last_exchange = NoExchange
  /\ sleeps = <<>>
  /\ exchange_log = <<>>

\* the helper's connection
HelperConn == 1

\* the server accepts the helper's connection and reads its request
Connect ==
  /\ h_pc = "exchange"
  /\ HandleConnection(HelperConn,
                      RequestLine(approver_call.tool_name, approver_input))

\* the helper reads the server's response line
ReceiveResponse ==
  /\ conn[HelperConn].pc = "answered"
  /\ Exchange([kind |-> "reply", reply |-> conn[HelperConn].reply])

ApproverNext ==
  \/ CallTool
  \/ LoopTest
  \/ Sleep
  \/ Connect
  \/ \E ans \in ElicitResults : ElicitReturns(HelperConn, ans)
  \/ ElicitReturnsSaveFails(HelperConn)
  \/ ElicitRaises(HelperConn)
  \/ ReceiveResponse
  \/ \E x \in Exchanges :
       /\ x.kind \in RetriedFailures
       /\ conn[HelperConn].pc = "closed"
       /\ Exchange(x)
  \/ \E x \in Exchanges : x.kind \in FinalFailures /\ Exchange(x)
  \/ h_pc # "exchange" /\ CloseConnection(HelperConn)
  \/ ReturnResult

ApproverSpec == ApproverInit /\ [][ApproverNext]_vars

CacheInit ==
  /\ ExecInit
  /\ HelperInitWith("idle", DEFAULT_RETRY_ATTEMPTS, DEFAULT_RETRY_DELAY)
  /\ UnitsIdle
  /\ storage_file \in FileContents
  /\ session_permissions = EmptyTier
  /\ persistent_permissions = EmptyTier
  /\ cache_pc = "new"
  /\ cache_op = NoCall
  /\ stored_always = {}
  /\ write_failed = FALSE
  /\ conn = [c \in Conns |-> IdleConn]
  /\ requests = 0
  /\ elicit_calls = 0

CacheNext ==
  \/ Construct
  \/ \E k \in CacheKeys : Check(k)
  \/ \E k \in CacheKeys, d \in Decisions : Store(k, d)
  \/ \E k \in CacheKeys : StoreSaveFails(k)

CacheSpec == CacheInit /\ [][CacheNext]_vars

ParserInit ==
  /\ ExecInit
  /\ BridgeInitOver(SavedFile(EmptyTier))
  /\ HelperInitWith("idle", DEFAULT_RETRY_ATTEMPTS, DEFAULT_RETRY_DELAY)
  /\ \E stream \in Streams(MaxLines) : ParserInitOver(stream)
  /\ DetectorInitOver(NoTextEvent)

ParserNext == NextLine \/ EndOfStream \/ ReadError

ParserSpec == ParserInit /\ [][ParserNext]_vars

\* The read loop over the parser: lines that are JSON objects of every kind
\* of type, with and without a session_id field, other lines, and a read
\* failure.
SessionLines ==
  {WithSession(l, sid) :
     l \in {Line(FALSE, "object", t, "absent", "absent") :
              t \in {"absent", "init", "result", "unknown", "bogus"}}
          \cup {Line(FALSE, "object", "assistant", "object", "list")},
     sid \in SessionFields}
  \cup {Line(FALSE, "invalid", "absent", "absent", "absent"), ReadFailure}
RECURSIVE SessionStreams(_)
SessionStreams(n) ==
  IF n = 0 THEN {<<>>}
  ELSE SessionStreams(n - 1) \cup
       {Append(s, l) : s \in {t \in SessionStreams(n - 1) : Len(t) = n - 1},
                       l \in SessionLines}

\* the parser is asked for the next event when the loop's body has finished
\* with the one before
BodyFinished ==
  /\ events_read = Len(yielded)
  /\ d_event = NoTextEvent \/ d_pc = "returned"

\* one turn of the read loop's body over the event the parser has yielded:
\* the session id is captured (lines 247-250), then handle_event is called
\* (line 257); the lines of the model hold no text
ReadLoopTurn ==
  /\ events_read < Len(yielded)
  /\ d_event = NoTextEvent \/ d_pc = "returned"
  /\ LET ev == yielded[events_read + 1]
     IN  /\ events_read' = events_read + 1
         /\ session_id' = Capture(session_id, ev)
         /\ d_event' = TextEvent(ev.type, <<>>)
  /\ d_pc' = "idle" /\ d_interaction' = NoInteraction /\ d_response' = "None"
  /\ UNCHANGED <<ctlVars, cfgVars, srvVars, procVars, round,
                 pending_resume_response, user_response, event, elapsed,
                 metricVars, histVars, tickVars, d_elicits>>
  /\ UNCHANGED <<bridgeVars, helperVars, parserVars>>

CaptureInit ==
  /\ ExecInit
  /\ BridgeInitOver(SavedFile(EmptyTier))
  /\ HelperInitWith("idle", DEFAULT_RETRY_ATTEMPTS, DEFAULT_RETRY_DELAY)
  /\ \E stream \in SessionStreams(MaxLines) : ParserInitOver(stream)
  /\ DetectorInitOver(NoTextEvent)

CaptureNext ==
  \/ BodyFinished /\ NextLine
  \/ BodyFinished /\ EndOfStream
  \/ BodyFinished /\ ReadError
  \/ ReadLoopTurn
  \/ HandleEvent

CaptureSpec == CaptureInit /\ [][CaptureNext]_vars

DetectorInit ==
  /\ ExecInit
  /\ BridgeInitOver(SavedFile(EmptyTier))
  /\ HelperInitWith("idle", DEFAULT_RETRY_ATTEMPTS, DEFAULT_RETRY_DELAY)
  /\ ParserInitOver(<<>>)
  /\ \E e \in TextEvents : DetectorInitOver(e)

DetectorNext ==
  HandleEvent \/ ElicitAccepted \/ ElicitDeclined \/ ElicitFailed

DetectorSpec == DetectorInit /\ [][DetectorNext]_vars

\* the event loop runs the call whenever it can go on
HelperFairSpec == HelperSpec /\ WF_vars(HelperNext)

(***************************************************************************)
(* Properties of the orchestrator, checked under Spec.                     *)
(***************************************************************************)
\* a step that writes a response message to a stdin
ResponseWritten ==
  /\ Len(stdin') = Len(stdin) + 1
  /\ stdin'[Len(stdin')].kind = "response"

\* C1: while self.session_id holds a session id, a response is never written
\* to the stdin of the process that is running; it is written only as the
\* first stdin message of a process respawned with the resume flag for that
\* session.  A response is appended to the running process's stdin only in
\* the first round and only while no session id is known.
C1_ResponseOnlyByResume ==
  [][ResponseWritten =>
        IF Truthy(session_id)
        THEN stdin = <<>> /\ round > 0 /\ cmd.resume = session_id
        ELSE round = 0 /\ stdin # <<>> /\ spawned' = spawned]_vars

\* a resumed process has received a response as its first stdin message
C1_Witness ==
  /\ round > 0 /\ Truthy(session_id)
  /\ Len(stdin) = 1 /\ stdin[1].kind = "response"

\* C2: an execution that went through a silence longer than the inactivity
\* window, and that the hard deadline did not end, has terminated the process
\* and returned the inactivity failure naming the configured duration.
C2_InactivityWatchdog ==
  (pc = "done" /\ silent_gap /\ ~deadline_fired /\ outcome = "returned") =>
    /\ result.kind = "inactivity"
    /\ ~result.success
    /\ result.error = <<"Inactivity timeout after", "inactivity_timeout_seconds">>
    /\ process # "running"

\* C3: once the hard deadline has expired, in whatever state, execute ends by
\* returning the timeout failure with the interaction counters, and the agent
\* process is not running.
C3_DeadlineAlwaysReturns ==
  (pc = "done" /\ deadline_fired) =>
    /\ outcome = "returned"
    /\ result.kind = "deadline"
    /\ ~result.success
    /\ result.error = <<"Execution exceeded", "max_execution_seconds">>
    /\ AllCounterKeys \subseteq result.keys
    /\ process # "running"

\* the counters of a result equal the orchestrator's
CountersMatch(r) ==
  /\ AllCounterKeys \subseteq r.keys
  /\ r.permissions_requested = permissions_requested
  /\ r.permissions_granted = permissions_granted
  /\ r.choices_asked = choices_asked
  /\ r.questions_asked = questions_asked
  /\ r.confirmations_asked = confirmations_asked

C5_StreamEndAlwaysFailure ==
  (pc = "done" /\ result.kind = "stream_end") => ~result.success

\* C5 (amended): a stream that ended without a Result event gives a result
\* that carries the stderr text and the exit code, and whose success flag is
\* true exactly when the exit code is 0.
C5_StreamEndByExitCode ==
  (pc = "done" /\ result.kind = "stream_end") =>
    /\ outcome = "returned"
    /\ result.success = (returncode = 0)
    /\ result.returncode = returncode
    /\ result.error = (IF stderr_text = "" THEN NoError
                       ELSE <<"stderr", stderr_text>>)
    /\ {"success", "error", "returncode"} \subseteq result.keys
    /\ CountersMatch(result)

\* the stream of a resumed process ended without a Result event, exit code 0
C5_Witness ==
  /\ pc = "done" /\ result.kind = "stream_end"
  /\ returncode = 0 /\ round > 0 /\ stderr_text # ""

\* C6: however an execution ends, execute returns a result with a success
\* flag and all five interaction counters; it never raises.
C6_AlwaysTypedResult ==
  pc = "done" =>
    /\ outcome = "returned"
    /\ ({"success"} \cup AllCounterKeys) \subseteq result.keys

\* C7: no response formed from a Host decision is lost or sent twice: it is
\* written to a stdin at most once, and as long as the execution goes on it
\* either has been written or is held for delivery, as the queued response
\* or as the message of the coming resumption.
C7_EveryResponseDeliveredOnce ==
  \A i \in 1..formed :
    /\ Cardinality({j \in 1..Len(delivered) : delivered[j] = i}) <= 1
    /\ pc # "done" =>
         \/ \E j \in 1..Len(delivered) : delivered[j] = i
         \/ pending_resume_response.id = i
         \/ user_response.id = i

(***************************************************************************)
(* Properties of the bridge and the cache, checked under BridgeSpec.       *)
(***************************************************************************)
KeyOf(req) ==
  GenerateHash(req.tool_name,
               FormatPermissionTarget(req.tool_name, req.tool_input))

InCache(h) ==
  h \in DOMAIN session_permissions \cup DOMAIN persistent_permissions

StoredDecision(h) ==
  IF h \in DOMAIN session_permissions
  THEN session_permissions[h].decision
  ELSE persistent_permissions[h].decision

\* a step in which connection c's permission request is taken up
Handled(c) ==
  /\ conn[c].pc = "closed" /\ conn'[c].pc # "closed"
  /\ conn'[c].request.kind = "permission_request"

\* a step in which connection c's elicit comes back
Answered(c) == conn[c].pc = "eliciting" /\ conn'[c].pc = "answered"

\* C8: a permission request whose key is in the session tier or the persisted
\* tier when it is handled is answered in that step with granted true and the
\* stored decision, and the Host's elicit is not called for it.
C8_CacheHitGrantsWithoutPrompt ==
  [][\A c \in Conns :
       (Handled(c) /\ InCache(KeyOf(conn'[c].request))) =>
          /\ conn'[c].pc = "answered"
          /\ conn'[c].reply = Granted(StoredDecision(KeyOf(conn'[c].request)))
          /\ conn'[c].options = {}
          /\ elicit_calls' = elicit_calls]_vars

\* a request giving the relative path was granted from the persisted tier,
\* the Host never asked
C8_Witness ==
  \E c \in Conns :
    /\ conn[c].pc = "answered"
    /\ conn[c].request.tool_input = <<"a.txt">>
    /\ conn[c].reply = Granted("allow_always")
    /\ elicit_calls = 0

DecisionOfLabel(l) ==
  CASE l = "Allow Once" -> "allow_once"
    [] l = "Allow Session" -> "allow_session"
    [] l = "Allow Always" -> "allow_always"
    [] l = "Deny" -> "deny"

\* the tier d holds decision under h and is otherwise as e was
WrittenTo(d, e, h, decision) ==
  /\ DOMAIN d = DOMAIN e \cup {h}
  /\ d[h].decision = decision
  /\ \A k \in DOMAIN e \ {h} : d[k] = e[k]

\* C9: a permission request whose key is in neither tier makes exactly one
\* elicit call, with the four options; the answer is granted false when the
\* Host did not accept or chose Deny; it is granted true only for an accepted
\* allow option, then with that option as the decision (and always so unless
\* flushing the persisted tier failed); the cache is written exactly for
\* Allow Session (session tier) and Allow Always (both tiers), under the
\* request's key and with that decision, and is untouched otherwise.
C9_MissPromptsOnceAndStores ==
  [][/\ \A c \in Conns :
          (Handled(c) /\ ~InCache(KeyOf(conn'[c].request))) =>
             /\ conn'[c].pc = "eliciting"
             /\ conn'[c].options = Labels
             /\ elicit_calls' = elicit_calls + 1
             /\ UNCHANGED cacheVars
     /\ elicit_calls' # elicit_calls =>
          \E c \in Conns : Handled(c) /\ ~InCache(KeyOf(conn'[c].request))
     /\ \A c \in Conns :
          Answered(c) =>
            LET a == conn'[c].answer
                r == conn'[c].reply
                h == GenerateHash(conn[c].request.tool_name, conn[c].target)
                allowed == a.action = "accept" /\ a.data \in Labels \ {"Deny"}
            IN  /\ elicit_calls' = elicit_calls
                /\ h = KeyOf(conn[c].request)
                /\ (a.action # "accept" \/ a.data = "Deny") => ~r.granted
                /\ r.granted => allowed /\ r = Granted(a.data)
                /\ (allowed /\ conn'[c].saved) => r.granted
                /\ IF a.action = "accept" /\ a.data = "Allow Session"
                   THEN /\ WrittenTo(session_permissions',
                                     session_permissions, h, "allow_session")
                        /\ UNCHANGED <<persistent_permissions, storage_file>>
                   ELSE IF a.action = "accept" /\ a.data = "Allow Always"
                   THEN /\ WrittenTo(session_permissions',
                                     session_permissions, h, "allow_always")
                        /\ WrittenTo(persistent_permissions',
                                     persistent_permissions, h, "allow_always")
                   ELSE UNCHANGED cacheVars]_vars

\* the Host was asked once and accepted Allow Always: granted, both tiers and
\* the file hold the entry
C9_Witness ==
  \E c \in Conns :
    /\ conn[c].pc = "answered"
    /\ conn[c].answer = [action |-> "accept", data |-> "Allow Always"]
    /\ conn[c].reply = Granted("Allow Always")
    /\ elicit_calls = 1
    /\ KeyOf(conn[c].request) \in DOMAIN session_permissions
    /\ KeyOf(conn[c].request) \in DOMAIN LoadPersistent(storage_file).tier

(***************************************************************************)
(* Properties of the helper, checked under HelperFairSpec.                 *)
(***************************************************************************)
HelperInv ==
  /\ connections_made <= retry_attempts
  /\ \A k \in 1..Len(sleeps) : sleeps[k] = retry_delay * 2^(k - 1)
  /\ h_pc = "exchange" => Len(sleeps) = connections_made
  /\ h_pc = "sleep" => Len(sleeps) = connections_made - 1
  /\ h_pc = "done" =>
       /\ response.written
       /\ Len(sleeps) = (IF connections_made = 0 THEN 0
                         ELSE connections_made - 1)
       /\ last_exchange.kind # "reply" => ~response.granted
       /\ response.granted => last_exchange.reply.granted

Refusals(n) ==
  /\ Len(exchange_log) = n
  /\ \A k \in 1..n : exchange_log[k] = "refused"

DefaultSettings ==
  /\ retry_attempts = DEFAULT_RETRY_ATTEMPTS
  /\ retry_delay = DEFAULT_RETRY_DELAY

\* C11 as stated: with the default settings, three consecutive refusals end
\* in granted false and three delays have been waited, 0.1s, 0.2s and 0.4s.
C11_ThreeDelaysWaited ==
  (DefaultSettings /\ Refusals(3) /\ h_pc = "done") =>
    /\ ~response.granted
    /\ sleeps = <<DEFAULT_RETRY_DELAY, 2 * DEFAULT_RETRY_DELAY,
                  4 * DEFAULT_RETRY_DELAY>>

\* C11: with the default settings, three consecutive refusals end the call
\* with granted false and the "Cannot connect" message, no fourth connection
\* is attempted, and the delays waited are the two between the attempts,
\* 0.1s then 0.2s: delay number k is base * 2^(k-1) for k below the number
\* of attempts, and nothing is waited after the last refusal.
C11_BackoffBetweenAttempts ==
  (DefaultSettings /\ Refusals(3)) =>
    /\ h_pc \in {"loop", "done"}
    /\ connections_made = 3
    /\ sleeps = <<DEFAULT_RETRY_DELAY, 2 * DEFAULT_RETRY_DELAY>>
    /\ \A k \in 1..Len(sleeps) : sleeps[k] = retry_delay * 2^(k - 1)
    /\ h_pc = "done" =>
         response = Refused("Cannot connect to permission server")

\* three refusals under the default settings, and the call has returned
C11_Witness ==
  /\ DefaultSettings /\ Refusals(3)
  /\ h_pc = "done"
  /\ response.written /\ ~response.granted

(***************************************************************************)
(* Properties of the cache, checked under CacheSpec.                       *)
(***************************************************************************)
\* what check_permission returns for the key k
CheckOf(k) == CheckPermission(k[1], k[2])

\* the step is a call of store_permission with this decision that returned
StoreReturned(decision) ==
  /\ cache_op'.op = "store"
  /\ cache_op'.decision = decision
  /\ cache_op'.raised = "None"

\* C12: a store with ALLOW_ONCE or DENY, for any key and from any state of
\* the cache, leaves the session tier, the persisted tier and the file as
\* they were, so that any number of them in a row changes nothing, and
\* every check returns after it what it returned before it.
C12_OnceAndDenyStoreNothing ==
  [][(StoreReturned("allow_once") \/ StoreReturned("deny")) =>
        /\ UNCHANGED <<session_permissions, persistent_permissions,
                       storage_file>>
        /\ \A k \in CacheKeys : CheckOf(k)' = CheckOf(k)]_vars

\* a Deny was stored into a cache that holds entries in both tiers
C12_Witness ==
  /\ cache_op.op = "store" /\ cache_op.decision = "deny"
  /\ session_permissions # EmptyTier
  /\ persistent_permissions # EmptyTier
  /\ CheckOf(cache_op.key) = NoPermission

\* the file lists exactly the entries of the tier
ListsExactly(file, tier) ==
  /\ file.state = "present" /\ file.top = "object" /\ file.plist = "list"
  /\ Len(file.entries) = Cardinality(DOMAIN tier)
  /\ {file.entries[i] : i \in 1..Len(file.entries)} =
       {FileEntry("ok", tier[h].hash, tier[h].decision) : h \in DOMAIN tier}

\* C13: a store with ALLOW_SESSION puts the entry into the session tier and
\* leaves the persisted tier and the file as they were; a store with
\* ALLOW_ALWAYS that returns puts the same entry into both tiers and leaves
\* the file listing exactly the entries of the persisted tier; the entries
\* under the other keys stay as they were.
C13_SessionAndAlwaysStores ==
  [][LET k == cache_op'.key
         entry(d) == StoredPermission(k[1], k[2], d)
     IN  /\ StoreReturned("allow_session") =>
              /\ WrittenTo(session_permissions', session_permissions, k,
                           "allow_session")
              /\ session_permissions'[k] = entry("allow_session")
              /\ UNCHANGED <<persistent_permissions, storage_file>>
         /\ StoreReturned("allow_always") =>
              /\ WrittenTo(session_permissions', session_permissions, k,
                           "allow_always")
              /\ WrittenTo(persistent_permissions', persistent_permissions,
                           k, "allow_always")
              /\ session_permissions'[k] = entry("allow_always")
              /\ persistent_permissions'[k] = entry("allow_always")
              /\ ListsExactly(storage_file', persistent_permissions')]_vars

\* an Allow Always was stored next to a session-only entry and an older
\* persisted one
C13_Witness ==
  /\ cache_op = Call("store", cache_op.key, "allow_always", "None")
  /\ Len(storage_file.entries) = 2
  /\ \E k \in DOMAIN session_permissions \ {cache_op.key} :
       /\ session_permissions[k].decision = "allow_session"
       /\ k \notin DOMAIN persistent_permissions

\* the step constructs a cache anew over the file of a cache in use
Reloaded == cache_pc = "ready" /\ cache_op'.op = "init"

\* C14: when the cache is constructed again over the file of a cache whose
\* latest write of the file came back, it is constructed without raising,
\* its session tier is empty, and every key stored with ALLOW_ALWAYS is a
\* hit with decision ALLOW_ALWAYS, whatever else was stored before or after
\* it; a key held in the session tier only (stored with ALLOW_SESSION and
\* never persisted) is a miss after it.
C14_AlwaysSurvivesReload ==
  [][Reloaded =>
       /\ ~write_failed =>
            /\ cache_pc' = "ready"
            /\ session_permissions' = EmptyTier
            /\ \A k \in stored_always :
                 CheckOf(k)' = StoredPermission(k[1], k[2], "allow_always")
       /\ \A k \in DOMAIN session_permissions :
            k \notin DOMAIN persistent_permissions =>
              CheckOf(k)' = NoPermission]_vars

\* the cache was constructed again and finds an entry it stored itself
C14_Witness ==
  /\ cache_op.op = "init" /\ cache_pc = "ready"
  /\ session_permissions = EmptyTier
  /\ storage_file.state = "present" /\ Len(storage_file.entries) = 2
  /\ \E k \in CacheKeys \ Hashes :
       CheckOf(k) = StoredPermission(k[1], k[2], "allow_always")

\* the file is not a well-formed file of the cache
Corrupt(file) ==
  \/ file.state # "present"
  \/ file.top # "object"
  \/ file.plist = "not_list"
  \/ \E i \in 1..Len(file.entries) :
       file.entries[i].shape # "ok" \/ file.entries[i].decision \notin Decisions

\* C15: constructing the cache never raises, and over a missing, unreadable
\* or corrupt file it leaves the persisted tier empty.
C15_LoadNeverFatal ==
  cache_op.op = "init" =>
    /\ cache_pc # "raised"
    /\ Corrupt(storage_file) => persistent_permissions = EmptyTier

(***************************************************************************)
(* Properties of the stream parser, checked under ParserSpec.              *)
(***************************************************************************)
\* the line is a JSON object whose "type" is a ClaudeEventType value
Recognised(line) == line.json = "object" /\ line.type \in EventTypeValues

\* C16: decoding a line never raises; the event made of a line has the type
\* that the line's "type" field names when the line is a JSON object with a
\* recognised type, and otherwise it is an Unknown event carrying the line.
C16_DecodeNeverRaises ==
  /\ p_pc # "raised"
  /\ \A i \in 1..Len(yielded) :
       \/ Recognised(lines_read[i]) /\ yielded[i].type = lines_read[i].type
       \/ yielded[i].type = "unknown" /\ yielded[i].raw_line = lines_read[i]

\* C17: while the parser reads, each step consumes one item of the stream:
\* a blank line yields nothing, any other line yields exactly one event,
\* made of that line and placed after those yielded before (an Unknown
\* event when the line is no valid JSON), and the parser goes on reading;
\* the end of the stream or a read error ends the sequence, with nothing
\* yielded and nothing raised.
C17_OneEventPerLine ==
  [][p_pc = "reading" =>
       IF stdout_stream = <<>> \/ Head(stdout_stream) = ReadFailure
       THEN p_pc' = "ended" /\ yielded' = yielded
       ELSE LET line == Head(stdout_stream)
            IN  /\ p_pc' = "reading"
                /\ stdout_stream' = Tail(stdout_stream)
                /\ IF line.json = "blank" THEN yielded' = yielded
                   ELSE /\ Len(yielded') = Len(yielded) + 1
                        /\ SubSeq(yielded', 1, Len(yielded)) = yielded
                        /\ yielded'[Len(yielded')].raw_line = StripLine(line)
                        /\ line.json = "invalid" =>
                             yielded'[Len(yielded')].type = "unknown"]_vars

(***************************************************************************)
(* Properties of the interaction handler, checked under DetectorSpec.      *)
(***************************************************************************)
\* The well-formed objects of the text that hold the sentinel key with an
\* object as its value: where each begins and ends.
MarkerObjectsIn(text, marker) ==
  {span \in (1..Len(text)) \X (1..Len(text)) :
     /\ text[span[1]] = "{"
     /\ ScanBalanced(text, span[1], 0, FALSE, FALSE) = span[2]
     /\ LET obj == JsonLoads(SubSeq(text, span[1], span[2]))
        IN  HasKey(obj, marker) /\ Lookup(obj, marker).kind = "obj"}
MarkerDataAt(text, span, marker) ==
  Lookup(JsonLoads(SubSeq(text, span[1], span[2])), marker)

\* the fields handle_event needs of a marker of this kind
HasFields(data, marker) ==
  /\ HasKey(data, "Kq")
  /\ marker = MARKER_CHOICE => HasKey(data, "Ko")
\* the text holds a marker of this kind with its fields
Contains(text, marker) ==
  \E span \in MarkerObjectsIn(text, marker) :
    HasFields(MarkerDataAt(text, span, marker), marker)

CountersSum == choices_asked + questions_asked + confirmations_asked

\* the sentinel key is written at most once in the text
AtMostOnce(text, marker) ==
  Cardinality({i \in 1..Len(text) : text[i] = marker}) <= 1

\* C18: handling one event makes at most one elicit call and adds at most
\* one to the interaction counters, by one; an event that is no assistant
\* event makes no elicit call and gets no response; and when the text of
\* an assistant event holds markers of more than one kind (each sentinel
\* key written once), the one acted on is the choice marker if there is
\* one, else the question marker.
C18_OneMarkerByPriority ==
  d_pc # "idle" =>
    /\ d_elicits <= 1 /\ CountersSum <= 1
    /\ d_event.type # "assistant" => d_elicits = 0 /\ d_response = "None"
    /\ (/\ d_event.type = "assistant"
        /\ \A m \in Markers : AtMostOnce(d_event.text, m)) =>
         LET has(m) == Contains(d_event.text, m)
         IN  /\ (/\ has(MARKER_CHOICE)
                 /\ has(MARKER_QUESTION) \/ has(MARKER_CONFIRMATION)) =>
                  d_interaction.kind = "choice"
             /\ (/\ ~has(MARKER_CHOICE)
                 /\ has(MARKER_QUESTION) /\ has(MARKER_CONFIRMATION)) =>
                  d_interaction.kind = "question"

\* C19: whenever the text holds a well-formed object with the sentinel key
\* (written once in the text) and an object as its value,
\* _extract_json_marker returns that value, taken from an object that
\* encloses the key and holds no smaller such object.
C19_MarkerExtracted ==
  (d_pc # "idle" /\ d_event.type = "assistant") =>
    \A marker \in Markers :
      LET text == d_event.text
          spans == MarkerObjectsIn(text, marker)
      IN  (spans # {} /\ AtMostOnce(text, marker)) =>
            \E span \in spans :
              /\ ExtractJsonMarker(text, marker) =
                   MarkerDataAt(text, span, marker)
              /\ \A other \in spans :
                   ~(span[1] < other[1] /\ other[2] < span[2])

\* the marker's data is what the data model asks for: a question, and for
\* a choice a list of at least one option
WellFormedData(data, marker) ==
  /\ HasKey(data, "Kq")
  /\ marker = MARKER_CHOICE =>
       /\ HasKey(data, "Ko")
       /\ Lookup(data, "Ko").kind = "list" /\ Lookup(data, "Ko").n >= 1

\* C20: when every marker of the text is invalid JSON or lacks a required
\* field (the question; for a choice the options, of which there must be
\* one at least), handling the event detects nothing: no elicit call is
\* made, no counter changes, no response is returned to be queued or
\* written, and nothing is raised.
C20_MalformedNotDetected ==
  (/\ d_pc # "idle" /\ d_event.type = "assistant"
   /\ \E k \in Markers : Find(d_event.text, k) # 0
   /\ \A m \in Markers :
        \A span \in MarkerObjectsIn(d_event.text, m) :
          ~WellFormedData(MarkerDataAt(d_event.text, span, m), m)) =>
    /\ d_interaction = NoInteraction
    /\ d_elicits = 0 /\ CountersSum = 0
    /\ d_response = "None"
    /\ d_pc = "returned"

(***************************************************************************)
(* Properties of the heartbeat tasks and of resumption, checked under Spec.*)
(***************************************************************************)
\* C21: the heartbeat tasks alive are those of the read loops not yet left
\* (leaving a loop, by a Result event, the end of the stream, the inactivity
\* timeout, the deadline's cancellation or an exception, cancels its task);
\* once execute has ended no heartbeat task is left, and no heartbeat
\* report is made any more.
C21_HeartbeatCancelledWithLoop ==
  /\ [](heartbeats = loop_frames /\ (pc = "done" => heartbeats = 0))
  /\ [][heartbeat_reports' # heartbeat_reports =>
         pc # "done" /\ pc' # "done" /\ heartbeats > 0]_vars

\* execute has ended after a resumption, a heartbeat having reported while
\* a loop was being read
C21_Witness ==
  /\ pc = "done" /\ round > 0 /\ heartbeat_reports > 0
  /\ heartbeats = 0

\* C28: at every moment of an execution at most one read loop is entered
\* and at most one heartbeat task is alive, whatever the number of
\* resumption rounds.
C28_OneLoopOneTicker ==
  loop_frames <= 1 /\ heartbeats <= 1

\* a step that spawns the process of a resumption
ResumeSpawned == spawned' = spawned + 1 /\ round' = round + 1

\* C26: a resumption spawns its process only when the process before it is
\* no longer running, a response has been formed and a session id is
\* known, and with the resume flag carrying that session id; the response
\* is the first and only message written to the new process's stdin, and
\* events are read from it only after that; every result a resumption
\* round returns is a non-empty dictionary, so that the frame that started
\* the round returns it and reads no further event of the process it had.
C26_ResumptionSteps ==
  /\ [][ResumeSpawned =>
          /\ pc = "respawn" /\ process # "running"
          /\ user_response.id # 0 /\ Truthy(session_id)
          /\ cmd'.resume = session_id
          /\ stdin' = <<>>]_vars
  /\ [][(round > 0 /\ stdin' # stdin /\ ~ResumeSpawned) =>
          /\ pc = "send_response" /\ stdin = <<>>
          /\ stdin' = <<ResponseMessage(user_response)>>]_vars
  /\ [][(round > 0 /\ events_read' = events_read + 1) =>
          /\ stdin = <<ResponseMessage(user_response)>>
          /\ cmd.resume # NoSession]_vars
  /\ [](outcome = "returned" => result.keys # {})

\* an event of a resumed process is being handled, the process having been
\* given the response alone
C26_Witness ==
  /\ round > 0 /\ event # NoEvent
  /\ cmd.resume = session_id
  /\ stdin = <<ResponseMessage(user_response)>>

\* a step in which the Host's answer to an interaction comes back
InteractionAnswered == pc = "elicit" /\ formed' = formed + 1

\* C27: in a resumed round as in the first, a response formed while a
\* session id is known is queued and the running process goes on being
\* read (to its Result event or the end of its stream) before it is
\* terminated for the next resumption.
C27_ResumedRoundLikeFirst ==
  [][(InteractionAnswered /\ round > 0 /\ Truthy(session_id)) =>
        /\ pc' = "check"
        /\ process' = process
        /\ pending_resume_response'.id = formed + 1]_vars

(***************************************************************************)
(* Properties of the cache keys and of the grants, checked under           *)
(* BridgeSpec and CacheSpec.                                               *)
(***************************************************************************)
FilePathTools == {"Read", "Write", "Edit"}

\* a path as given, made absolute by the working directory alone
AbsoluteForm(path) == IF path[1] = "/" THEN path ELSE Cwd \o path

\* the request of connection c names a file
FileRequest(r) ==
  r.kind = "permission_request" /\ r.tool_name \in FilePathTools

\* C23: for a file-path tool the target of a request is the one its path
\* made absolute gives, so that both forms have one cache key; normalizing
\* the target again changes nothing; and a request is answered from the
\* cache, the Host not asked, when the cache holds the key of either form.
C23_PathFormsShareKey ==
  /\ [](\A c \in Conns :
          (conn[c].pc # "closed" /\ FileRequest(conn[c].request)) =>
            LET tool == conn[c].request.tool_name
                other == AbsoluteForm(conn[c].request.tool_input)
            IN  /\ conn[c].target = FormatPermissionTarget(tool, other)
                /\ FormatPermissionTarget(tool, conn[c].target) = conn[c].target
                /\ GenerateHash(tool, conn[c].target) =
                     KeyOf([conn[c].request EXCEPT !.tool_input = other]))
  /\ [][\A c \in Conns :
          (/\ Handled(c) /\ FileRequest(conn'[c].request)
           /\ InCache(KeyOf([conn'[c].request EXCEPT !.tool_input =
                               AbsoluteForm(conn'[c].request.tool_input)]))) =>
             /\ conn'[c].pc = "answered"
             /\ conn'[c].reply.granted
             /\ elicit_calls' = elicit_calls]_vars

\* the Host allowed the absolute path for the session on one connection,
\* and the request giving the relative path was granted from the cache
C23_Witness ==
  \E c, d \in Conns :
    /\ conn[c].pc = "answered" /\ conn[d].pc = "answered"
    /\ conn[d].request.tool_input = <<"/", "ws", "a.txt">>
    /\ conn[d].answer = [action |-> "accept", data |-> "Allow Session"]
    /\ conn[c].request.tool_input = <<"a.txt">>
    /\ conn[c].answer = NoElicitResult
    /\ conn[c].reply = Granted("allow_session")
    /\ elicit_calls = 1

\* the Host's answer on connection c is this accepted label
Chose(c, label) ==
  Answered(c) /\ conn'[c].answer = [action |-> "accept", data |-> label]

\* C24: once the Host has answered a request with Allow Session or Allow
\* Always its key is in the cache and stays there, and a request whose key
\* is in the cache is granted in the step that handles it, the Host not
\* asked; an answer of Allow Once, Deny or no acceptance leaves the cache
\* as it was, and a request whose key is not in the cache asks the Host.
C24_GrantsReusedInExecution ==
  [][/\ \A c \in Conns :
          (Chose(c, "Allow Session") \/ Chose(c, "Allow Always")) =>
             InCache(KeyOf(conn[c].request))'
     /\ \A h \in Hashes : InCache(h) => InCache(h)'
     /\ \A c \in Conns :
          (Handled(c) /\ InCache(KeyOf(conn'[c].request))) =>
             /\ conn'[c].pc = "answered" /\ conn'[c].reply.granted
             /\ elicit_calls' = elicit_calls
     /\ \A c \in Conns :
          (Answered(c) /\ ~Chose(c, "Allow Session")
                       /\ ~Chose(c, "Allow Always")) =>
             UNCHANGED cacheVars
     /\ \A c \in Conns :
          (Handled(c) /\ ~InCache(KeyOf(conn'[c].request))) =>
             /\ conn'[c].pc = "eliciting"
             /\ elicit_calls' = elicit_calls + 1]_vars

\* the Host was asked twice for one command, having answered Allow Once
\* the first time and Allow Session the second, and the third request was
\* granted from the cache
C24_Witness ==
  \E c \in Conns :
    /\ conn[c].pc = "answered"
    /\ conn[c].request.tool_name = "Bash"
    /\ conn[c].answer = NoElicitResult
    /\ conn[c].reply = Granted("allow_session")
    /\ requests = 3 /\ elicit_calls = 2
    /\ permissions_requested = 3 /\ permissions_granted = 3
    /\ DOMAIN session_permissions = {KeyOf(conn[c].request)}

\* C25: the session tier outlives the call that filled it: when the next
\* execute_claude call of the process has its cache, every key stored with
\* ALLOW_SESSION is still a hit from the session tier.
C25_SessionTierOutlivesCall ==
  [][Reloaded =>
       \A k \in DOMAIN session_permissions :
         CheckOf(k)' = session_permissions[k]]_vars

(***************************************************************************)
(* Properties of the bypass mode, checked under ExecBridgeSpec.            *)
(***************************************************************************)
\* C22: in an execution with permissions disabled the bridge server is not
\* started and no helper configuration is written, every process spawned
\* carries the bypass flag and not the bridge wiring, the bridge handles no
\* request and the Host is not asked for a decision, and the permission
\* counters are 0, in the state and in every result returned.
C22_BypassMode ==
  (pc # "idle" /\ ~enable_permissions) =>
    /\ ~callback_server /\ ~approver_config_path
    /\ spawned > 0 => cmd.bypass /\ ~cmd.bridge
    /\ requests = 0 /\ elicit_calls = 0
    /\ \A c \in Conns : conn[c].pc = "closed"
    /\ permissions_requested = 0 /\ permissions_granted = 0
    /\ outcome = "returned" =>
         /\ result.permissions_requested = 0
         /\ result.permissions_granted = 0

\* an execution with permissions disabled and a Host has returned after a
\* resumption
C22_Witness ==
  /\ ~enable_permissions /\ ctx
  /\ pc = "done" /\ outcome = "returned"
  /\ round > 0 /\ cmd.bypass /\ cmd.resume # NoSession
  /\ result.permissions_requested = 0

(***************************************************************************)
(* Properties of the session id capture, checked under CaptureSpec.        *)
(***************************************************************************)
\* the line the read loop's body has just processed
ProcessedLine == lines_read[events_read]'

\* C29: after the read loop has processed a line that is a JSON object with
\* a session_id field, self.session_id is that field's value, whatever the
\* line's type; a line without the field leaves self.session_id as it was;
\* and handle_event is called on the event only after that.
C29_SessionIdCaptured ==
  [][events_read' = events_read + 1 =>
       /\ (ProcessedLine.json = "object"
             /\ ProcessedLine.session_id # "absent")
            => session_id' = ProcessedLine.session_id
       /\ ProcessedLine.session_id = "absent" => session_id' = session_id
       /\ d_pc' = "idle" /\ d_event' # NoTextEvent]_vars

(***************************************************************************)
(* Properties of the progress reports, checked under Spec.                 *)
(***************************************************************************)
\* an assistant event that invokes the permission tool
PermissionToolEvent(e) == e.type = "assistant" /\ e.tool = PermissionTool

\* C30: with a Host present, the loop's body makes exactly one progress
\* report for the event it has read before it goes on to interaction
\* detection, and none when the event is an assistant event that invokes
\* the permission tool.
C30_OneReportPerEvent ==
  [][(ctx /\ pc = "progress" /\ pc' \in {"check", "elicit"}) =>
       progress_reports' = IF PermissionToolEvent(event) THEN 0 ELSE 1]_vars

(***************************************************************************)
(* Properties of the bridge server's responses, checked under BridgeSpec.  *)
(***************************************************************************)
\* the request of connection c was answered by the decision callback with
\* granted true: from the cache, or after the Host accepted an allow option
\* and the grant was stored
CallbackGranted(c) ==
  /\ conn[c].request.kind = "permission_request"
  /\ \/ conn[c].answer = NoElicitResult /\ conn[c].options = {}
     \/ /\ conn[c].answer.action = "accept"
        /\ conn[c].answer.data \in Labels \ {"Deny"}
        /\ conn[c].saved

C33_TerminateNeverRaises ==
  [][/\ process' = "killed" => pc = "terminating" /\ process = "running"
     /\ ~(outcome' = "raised" /\ result'.error[1] = "terminate")]_vars

(***************************************************************************)
(* Properties of the permission counters, checked under BridgeSpec.        *)
(***************************************************************************)
\* a step in which the handling of connection c's permission request ends
\* with its response
Completed(c) ==
  /\ conn[c].pc # "answered" /\ conn'[c].pc = "answered"
  /\ conn'[c].request.kind = "permission_request"

\* C34: the permission counters never decrease, permissions_granted never
\* exceeds permissions_requested, and the handling of every permission
\* request adds exactly one to permissions_requested (and nothing else
\* changes it).
C34_CountersFollowRequests ==
  [][/\ permissions_requested' >= permissions_requested
     /\ permissions_granted' >= permissions_granted
     /\ 0 <= permissions_granted'
     /\ permissions_granted' <= permissions_requested'
     /\ \A c \in Conns :
          Completed(c) => permissions_requested' = permissions_requested + 1
     /\ permissions_requested' # permissions_requested =>
          \E c \in Conns : Completed(c)]_vars

(***************************************************************************)
(* Properties of the agent processes, checked under Spec.                  *)
(***************************************************************************)
\* C35: a process is spawned only when no process of the execution is
\* running (none was spawned yet, or the one before has exited or was
\* killed), in the first round and in every resumption, so that at most
\* one is alive; and when execute has returned the timeout failure the
\* process is not running.
C35_OneLiveProcess ==
  /\ [][spawned' # spawned =>
          /\ spawned' = spawned + 1
          /\ process # "running" /\ process' = "running"
          /\ spawned > 0 => process \in {"exited", "killed"}]_vars
  /\ []((outcome = "returned" /\ result.kind = "deadline") =>
          process \in {"exited", "killed"})

\* the deadline ended the second resumption: three processes were spawned
\* and the last one had to be killed
C35_Witness ==
  /\ pc = "done" /\ outcome = "returned" /\ result.kind = "deadline"
  /\ round = MaxRounds /\ spawned = MaxRounds + 1
  /\ process = "killed"

(***************************************************************************)
(* Properties of the bridge's life time, checked under Spec.               *)
(***************************************************************************)
\* C36: when execute has ended, by a result or by an exception, the bridge
\* server is stopped and the orchestrator refers neither to it nor to the
\* helper configuration; and as long as a process spawned with the bridge
\* wiring is running, the bridge server is listening.
C36_BridgeOutlivesProcess ==
  /\ pc = "done" => ~callback_server /\ ~approver_config_path
  /\ (process = "running" /\ cmd.bridge) => callback_server

(***************************************************************************)
(* Properties of the inactivity check, checked under Spec.                 *)
(***************************************************************************)
\* C37: the inactivity failure is returned only by an execution in which
\* the loop has waited for the agent's next event for longer than the
\* inactivity window; the time spent on an event that has arrived (the
\* progress report, the Host's answer) does not bring it about.
C37_InactivityOnlyAfterSilence ==
  (outcome = "returned" /\ result.kind = "inactivity") => silent_gap

(***************************************************************************)
(* Properties of the refused requests, checked under BridgeSpec.           *)
(***************************************************************************)
\* C38: a permission request answered with granted false has written to
\* neither tier of the cache nor to the file and has not been counted in
\* permissions_granted; a request answered with granted true has been
\* counted once, so that permissions_granted is the number of requests
\* answered with granted true.
C38_RefusalLeavesNoTrace ==
  [][\A c \in Conns :
       Completed(c) =>
         IF conn'[c].reply.granted
         THEN permissions_granted' = permissions_granted + 1
         ELSE /\ permissions_granted' = permissions_granted
              /\ UNCHANGED cacheVars]_vars

(***************************************************************************)
(* Properties of concurrent requests, checked under BridgeSpec.            *)
(***************************************************************************)
\* a step in which the Host is prompted for connection c's request
Prompted(c) == conn[c].pc # "eliciting" /\ conn'[c].pc = "eliciting"

\* C39: the Host is prompted for a request only when no prompt for the
\* same tool and normalized target is outstanding on another connection,
\* and when the key is in neither tier of the cache (where an Allow Session
\* or Allow Always answer has put it).
C39_OnePromptPerKey ==
  [][\A c \in Conns :
       Prompted(c) =>
         /\ ~InCache(KeyOf(conn'[c].request))
         /\ \A d \in Conns \ {c} :
              ~(/\ conn[d].pc = "eliciting"
                /\ KeyOf(conn[d].request) = KeyOf(conn'[c].request))]_vars

====
